---- MODULE Spec2Model ----
(***************************************************************************)
(* A model of the vdex table pipeline: the Veekun field decoders            *)
(* (veekun/src/repr.rs), the CSV record fold (veekun/src/csv.rs), the        *)
(* per-table record loaders and the aggregation rules of the item, move,    *)
(* nature and pokemon tables (vdex/src).                                     *)
(*                                                                         *)
(* Text is a sequence of one-character strings.  Option<T> is a sequence   *)
(* of length 0 (None) or 1 (Some).  Enum values are their repr() codes.    *)
(***************************************************************************)
EXTENDS Integers, Sequences, FiniteSets, TLC

VARIABLES
    kind,       \* decoder: the target type T of the field being read
    wrapped,    \* decoder: TRUE when the target is VeekunOption<T>
    record,     \* decoder: the csv::StringRecord the field is read from
    index,      \* decoder: the zero-based index of the field
    dflt,       \* decoder: the `default` argument (Option<Self>)
    res,        \* decoder: Pending, or the Result of from_field/from_option_field
    table,      \* fold: which FromCsvIncremental type from_csv is loading
    state,      \* fold: the accumulating table (`state` in from_csv)
    result,     \* fold: Running, or the Result returned by from_csv
    history,    \* fold: the items reader.records() has yielded so far
    overflow_checks, \* build: TRUE when integer overflow panics (debug
                     \* profile), FALSE when it wraps (release profile)
    flavors,    \* berries: the BerryFlavorTable BerryFlavorTable::new() gave
    berries,    \* berries: the BerryTable inside BerryTable::new()
    berry_pc,   \* berries: where BerryTable::new() is: "loaded" after
                \* from_csv_data, "done" after set_flavors
    data,       \* species: the rows of the CSV files (veekun::data) that
                \* SpeciesTable::new() and the constructors it calls load
    species,    \* species: the `table` inside SpeciesTable::new()
    species_pc, \* species: where SpeciesTable::new() is: "loaded" after
                \* from_csv_data, then "pokemon", "egg_groups", "done"
                \* after each join, or "panicked"
    call,       \* call: the function or macro being applied
    arg,        \* call: its argument
    ret,        \* call: Pending, or what the call produced
    POKEDEX_ONCE, \* pokedex: the state of the std::sync::Once
    POKEDEX,    \* pokedex: the static Option<Pokedex>
    thread_pc,  \* pokedex: where each thread is inside pokedex()
    got,        \* pokedex: what pokedex() returned to each thread
    stack,      \* pokedex: the constructors running inside Pokedex::new(),
                \* outermost first, each with the position in its body
    built,      \* pokedex: the tables constructed so far: rows loaded,
                \* auxiliaries joined, and whether the constructor returned
    joins,      \* pokedex: each read of a table by a join step so far, with
                \* the table as it was when the step read it
    runs        \* pokedex: how many times Pokedex::new() was entered

decVars  == <<kind, wrapped, record, index, dflt, res>>
foldVars == <<table, state, result, history, overflow_checks>>
berryVars == <<flavors, berries, berry_pc>>
speciesVars == <<data, species, species_pc>>
callVars == <<call, arg, ret>>
dexVars == <<POKEDEX_ONCE, POKEDEX, thread_pc, got, stack, built, joins, runs>>
vars     == <<kind, wrapped, record, index, dflt, res,
              table, state, result, history, overflow_checks,
              flavors, berries, berry_pc,
              data, species, species_pc,
              call, arg, ret,
              POKEDEX_ONCE, POKEDEX, thread_pc, got, stack, built, joins, runs>>

\* What the actions of one group leave alone
notDec     == <<foldVars, berryVars, speciesVars, callVars, dexVars>>
notFold    == <<decVars, berryVars, speciesVars, callVars, dexVars>>
notBerry   == <<decVars, foldVars, speciesVars, callVars, dexVars>>
notSpecies == <<decVars, foldVars, berryVars, callVars, dexVars>>
notCall    == <<decVars, foldVars, berryVars, speciesVars, dexVars>>
notDex     == <<decVars, foldVars, berryVars, speciesVars, callVars>>

----------------------------------------------------------------------------
(* Option and Result values *)

None    == <<>>
Some(x) == <<x>>
IsSome(o) == Len(o) = 1
Unwrap(o) == o[1]

Ok(v)         == [tag |-> "Ok", val |-> v]
IsOk(r)       == r.tag = "Ok"
Pending       == [tag |-> "Pending"]
Running       == [tag |-> "Running"]

\* veekun::repr::VeekunError<V>
VeekunError_Value(v) == [tag |-> "Value", val |-> v]
VeekunError_Parse(e) == [tag |-> "Parse", err |-> e]

----------------------------------------------------------------------------
(* Text *)

Digits == {"0", "1", "2", "3", "4", "5", "6", "7", "8", "9"}

DigitVal(c) ==
    CASE c = "0" -> 0 [] c = "1" -> 1 [] c = "2" -> 2 [] c = "3" -> 3
      [] c = "4" -> 4 [] c = "5" -> 5 [] c = "6" -> 6 [] c = "7" -> 7
      [] c = "8" -> 8 [] c = "9" -> 9

\* char::is_whitespace on the characters the model uses
is_whitespace(c) == c \in {" ", "\t"}

\* field.chars().all(char::is_whitespace): true of the empty text as well
all_whitespace(s) == \A i \in 1..Len(s) : is_whitespace(s[i])

Lowercase == <<"a", "b", "c", "d", "e", "f", "g", "h", "i", "j", "k", "l", "m",
               "n", "o", "p", "q", "r", "s", "t", "u", "v", "w", "x", "y", "z">>
Uppercase == <<"A", "B", "C", "D", "E", "F", "G", "H", "I", "J", "K", "L", "M",
               "N", "O", "P", "Q", "R", "S", "T", "U", "V", "W", "X", "Y", "Z">>

\* char::to_uppercase: the characters the upper-cased character expands to
to_uppercase(c) ==
    IF \E i \in 1..Len(Lowercase) : Lowercase[i] = c
    THEN <<Uppercase[CHOOSE i \in 1..Len(Lowercase) : Lowercase[i] = c]>>
    ELSE <<c>>

\* str::split(sep): the words between the separators, empty words included
RECURSIVE split(_, _)
split(s, sep) ==
    IF \A i \in 1..Len(s) : s[i] # sep THEN <<s>>
    ELSE LET i == CHOOSE j \in 1..Len(s) :
                     s[j] = sep /\ \A k \in 1..(j - 1) : s[k] # sep
         IN  <<SubSeq(s, 1, i - 1)>> \o split(SubSeq(s, i + 1, Len(s)), sep)

\* Only the first word is capitalised
RECURSIVE first_word_upper(_, _)
first_word_upper(words, i) ==
    IF i > Len(words) THEN <<>>
    ELSE (IF Len(words[i]) > 0 /\ i = 1
          THEN to_uppercase(Head(words[i])) \o Tail(words[i])
          ELSE words[i])
         \o first_word_upper(words, i + 1)

RECURSIVE pascal_words(_, _)
pascal_words(words, i) ==
    IF i > Len(words) THEN <<>>
    ELSE (IF Len(words[i]) > 0
          THEN to_uppercase(Head(words[i])) \o Tail(words[i])
          ELSE <<>>)
         \o pascal_words(words, i + 1)

\* veekun::to_pascal_case
to_pascal_case(s) == pascal_words(split(s, "-"), 1)

\* <integer as FromStr>::from_str: the digits are folded left to right with
\* checked arithmetic, so the first failing character decides the error.
RECURSIVE parse_digits(_, _, _, _, _, _)
parse_digits(s, i, acc, positive, lo, hi) ==
    IF i > Len(s) THEN Ok(acc)
    ELSE IF s[i] \notin Digits THEN [tag |-> "Err", err |-> "InvalidDigit"]
    ELSE LET m == acc * 10
             a == IF positive THEN m + DigitVal(s[i]) ELSE m - DigitVal(s[i])
             over == [tag |-> "Err",
                      err |-> IF positive THEN "PosOverflow" ELSE "NegOverflow"]
         IN  IF m > hi \/ m < lo THEN over
             ELSE IF a > hi \/ a < lo THEN over
             ELSE parse_digits(s, i + 1, a, positive, lo, hi)

from_str(s, lo, hi) ==
    IF Len(s) = 0 THEN [tag |-> "Err", err |-> "Empty"]
    ELSE IF s = <<"+">> \/ s = <<"-">> THEN [tag |-> "Err", err |-> "InvalidDigit"]
    ELSE IF s[1] = "+" THEN parse_digits(s, 2, 0, TRUE, lo, hi)
    ELSE IF s[1] = "-" /\ lo < 0 THEN parse_digits(s, 2, 0, FALSE, lo, hi)
    ELSE parse_digits(s, 1, 0, TRUE, lo, hi)

----------------------------------------------------------------------------
(* Integer widths *)

U8_MAX  == 255
U16_MAX == 65535
I8_MIN  == -128
I8_MAX  == 127

RECURSIVE BitOr(_, _)
BitOr(a, b) ==
    IF a = 0 THEN b
    ELSE IF b = 0 THEN a
    ELSE (IF a % 2 = 1 \/ b % 2 = 1 THEN 1 ELSE 0) + 2 * BitOr(a \div 2, b \div 2)

RECURSIVE Pow2(_)
Pow2(n) == IF n = 0 THEN 1 ELSE 2 * Pow2(n - 1)

\* u8/u16::checked_sub(1)
\* An identifier decoder that keeps the raw value as the index
keep_raw_value(value) == Some(value)

checked_sub1(value) == IF value >= 1 THEN Some(value - 1) ELSE None

----------------------------------------------------------------------------
(* Enum::from_repr: Some(code) when code is the discriminant of a variant *)

BattleStyle_CODES == 0..2        \* Attack = 0, Defense, Support
DamageClass_CODES == 0..2        \* NonDamaging = 0, Physical, Special
Target_CODES      == 0..11       \* SpecificMove = 0 .. EntireField
Generation_CODES  == 0..4        \* I = 0 .. V
Type_CODES        == 0..16       \* Normal = 0 .. Dark
Category_CODES    == 0..13       \* Damage = 0 .. Unique
Flavor_CODES      == 0..4        \* Spicy = 0, Sour, Sweet, Dry, Bitter
ContestType_CODES == 0..4        \* Cool = 0, Tough, Cute, Beauty, Smart
Nature_CODES      == 0..24       \* Hardy = 0 .. Quirky
Stat_CODES        == (-1)..6     \* HP = -1, Attack .. Evasion
EggGroup_CODES    == 1..15       \* Monster = 1 .. NoEggs
EvolutionTrigger_CODES == 1..4   \* LevelUp = 1, Trade, UseItem, Shed
Gender_CODES      == 1..3        \* Female = 1, Male, Genderless
\* Unknown = -1 .. Nightmare, Torment = 12 .. HealBlock, NoTypeImmunity = 17 ..
Ailment_CODES     == ((-1)..9) \cup (12..15) \cup (17..21)
\* RegularDamage = 1 .. Hurricane, with the gaps left by explicit discriminants
Effect_CODES ==
    (1..12) \cup {14} \cup (17..21) \cup (24..55) \cup (58..61) \cup {63}
    \cup (66..74) \cup (76..96) \cup (98..110) \cup (112..131) \cup {133}
    \cup (136..141) \cup (143..157) \cup (159..163) \cup (165..264)
    \cup (266..333) \cup (335..338)

from_repr(codes, x) == IF x \in codes THEN Some(x) ELSE None

\* Option::and_then(Self::from_repr)
and_then_from_repr(codes, s) ==
    IF IsSome(s) THEN from_repr(codes, Unwrap(s)) ELSE None

\* value.checked_sub(1).and_then(Self::from_repr)
sub1_from_repr(codes, value) == and_then_from_repr(codes, checked_sub1(value))

----------------------------------------------------------------------------
(* FromVeekun::from_veekun of the identifier types *)

MOVE_COUNT    == 559
BERRY_COUNT   == 64
POKEMON_COUNT == 673
SPECIES_COUNT == 649

\* Option::unwrap_or_default
unwrap_or_default(s) == IF IsSome(s) THEN Unwrap(s) ELSE 0

\* value.checked_sub(1).unwrap_or_default()
checked_sub1_or_default(value) == unwrap_or_default(checked_sub1(value))

\* A range check that lets the index COUNT through
id_up_to(id, count) == IF id <= count THEN Some(id) ELSE None

\* if id < COUNT { Some(Id(id)) } else { None }
id_below(id, count) == IF id < count THEN Some(id) ELSE None

MoveId_from_veekun(value) ==
    id_below(checked_sub1_or_default(value), MOVE_COUNT)

BerryId_from_veekun(value) ==
    id_below(checked_sub1_or_default(value), BERRY_COUNT)

PokemonId_from_veekun(value) ==
    id_below(checked_sub1_or_default(value), POKEMON_COUNT)

SpeciesId_from_veekun(value) ==
    id_below(checked_sub1_or_default(value), SPECIES_COUNT)

ItemId_from_veekun(value) == IF value = 0 THEN None ELSE Some(value)

----------------------------------------------------------------------------
(* FromVeekun::from_veekun of the other field types *)

Stat_from_veekun(value) ==
    CASE value = 1 -> Some(-1)     \* HP
      [] value = 2 -> Some(0)      \* Attack
      [] value = 3 -> Some(1)      \* Defense
      [] value = 4 -> Some(3)      \* SpecialAttack
      [] value = 5 -> Some(4)      \* SpecialDefense
      [] value = 6 -> Some(2)      \* Speed
      [] value = 7 -> Some(5)      \* Accuracy
      [] value = 8 -> Some(6)      \* Evasion
      [] OTHER -> None

Nature_from_veekun(value) ==
    LET codes == <<0, 5, 15, 20, 10, 1, 6, 16, 21, 11, 3, 8, 18, 23, 19,
                   13, 4, 9, 24, 14, 2, 7, 17, 22, 12>>
    IN  IF value \in 1..25 THEN Some(codes[value]) ELSE None

ContestType_from_veekun(value) ==
    CASE value = 1 -> Some(0)      \* Cool
      [] value = 2 -> Some(3)      \* Beauty
      [] value = 3 -> Some(2)      \* Cute
      [] value = 4 -> Some(4)      \* Smart
      [] value = 5 -> Some(1)      \* Tough
      [] OTHER -> None

\* Flavor::from(ContestType): Flavor::from_repr(contest.repr()).unwrap()
Flavor_from_ContestType(contest) == Unwrap(from_repr(Flavor_CODES, contest))

\* Option<ContestType>::map(Flavor::from)
map_Flavor_from(t) ==
    IF IsSome(t) THEN Some(Flavor_from_ContestType(Unwrap(t))) ELSE None

Flavor_from_veekun(value) == map_Flavor_from(ContestType_from_veekun(value))

MOVE_FLAG_BITS == 14
ITEM_FLAG_BITS == 8

\* moves::meta::Flags: 1 ..= 14 => Flags::from_bits(1 << (value - 1))
MoveFlags_from_veekun(value) ==
    IF value \in 1..MOVE_FLAG_BITS THEN Some(Pow2(value - 1)) ELSE None

\* items::Flags: 1 ..= 8 => Flags::from_bits(1 << (value - 1))
ItemFlags_from_veekun(value) ==
    IF value \in 1..ITEM_FLAG_BITS THEN Some(Pow2(value - 1)) ELSE None

----------------------------------------------------------------------------
(* The field types: Intermediate type and from_veekun *)

\* usize is 64 bits wide; the integers of the model end at 2^31 - 1, and no
\* field of the model has that many digits
USIZE_MAX == 2147483647

IntKinds == {"u8", "i8", "u16", "usize"}

FromVeekunKinds ==
    IntKinds \cup
    {"MoveId", "BerryId", "PokemonId", "SpeciesId", "ItemId",
     "BattleStyle", "DamageClass", "Target", "Generation", "Type",
     "Category", "Ailment", "Effect", "Stat", "Nature", "ContestType",
     "Flavor", "MoveFlags", "ItemFlags",
     "EggGroup", "EvolutionTrigger", "Gender"}

\* type Intermediate: the bounds of the integer type the text is parsed into
Intermediate(k) ==
    CASE k \in {"u16", "MoveId", "PokemonId", "SpeciesId", "ItemId", "Effect"}
            -> [lo |-> 0, hi |-> U16_MAX]
      [] k = "usize"
            -> [lo |-> 0, hi |-> USIZE_MAX]
      [] k \in {"i8", "Ailment"}
            -> [lo |-> I8_MIN, hi |-> I8_MAX]
      [] OTHER
            -> [lo |-> 0, hi |-> U8_MAX]

from_veekun(k, value) ==
    CASE k \in IntKinds     -> Some(value)
      [] k = "MoveId"       -> MoveId_from_veekun(value)
      [] k = "BerryId"      -> BerryId_from_veekun(value)
      [] k = "PokemonId"    -> PokemonId_from_veekun(value)
      [] k = "SpeciesId"    -> SpeciesId_from_veekun(value)
      [] k = "ItemId"       -> ItemId_from_veekun(value)
      [] k = "BattleStyle"  -> sub1_from_repr(BattleStyle_CODES, value)
      [] k = "DamageClass"  -> sub1_from_repr(DamageClass_CODES, value)
      [] k = "Target"       -> sub1_from_repr(Target_CODES, value)
      [] k = "Generation"   -> sub1_from_repr(Generation_CODES, value)
      [] k = "Type"         -> sub1_from_repr(Type_CODES, value)
      [] k = "Category"     -> from_repr(Category_CODES, value)
      [] k = "Ailment"      -> from_repr(Ailment_CODES, value)
      [] k = "Effect"       -> from_repr(Effect_CODES, value)
      [] k = "Stat"         -> Stat_from_veekun(value)
      [] k = "Nature"       -> Nature_from_veekun(value)
      [] k = "ContestType"  -> ContestType_from_veekun(value)
      [] k = "Flavor"       -> Flavor_from_veekun(value)
      [] k = "MoveFlags"    -> MoveFlags_from_veekun(value)
      [] k = "ItemFlags"    -> ItemFlags_from_veekun(value)
      [] k = "EggGroup"     -> from_repr(EggGroup_CODES, value)
      [] k = "EvolutionTrigger" -> from_repr(EvolutionTrigger_CODES, value)
      [] k = "Gender"       -> from_repr(Gender_CODES, value)

----------------------------------------------------------------------------
(* FromVeekunField::from_veekun_field *)

\* field.parse() into the Intermediate type of k
parse(k, text) == from_str(text, Intermediate(k).lo, Intermediate(k).hi)

\* Mutant: the default is returned on any parse failure, blank field or not.
default_on_any_parse_error(text, default, e) ==
    IF IsSome(default)
    THEN Ok(Unwrap(default))
    ELSE VeekunError_Parse(e)

\* if let Err(e) = result { ... }: the default for a blank field when there
\* is one, the Parse error otherwise
parse_failed(text, default, e) ==
    IF IsSome(default) /\ all_whitespace(text)
    THEN Ok(Unwrap(default))
    ELSE VeekunError_Parse(e)

\* Mutant: a rejected projection falls back to the default when there is one.
default_on_rejected_value(v, value, default) ==
    IF IsSome(v) THEN Ok(Unwrap(v))
    ELSE IF IsSome(default) THEN Ok(Unwrap(default))
    ELSE VeekunError_Value(value)

\* Self::from_veekun(value).ok_or(VeekunError::Value(value)); the default
\* takes no part
ok_or_Value(v, value, default) ==
    IF IsSome(v) THEN Ok(Unwrap(v)) ELSE VeekunError_Value(value)

\* The body of the blanket from_veekun_field once `result` is field.parse()
blanket_of_parsed(k, text, default, parsed) ==
    IF ~IsOk(parsed)
    THEN parse_failed(text, default, parsed.err)
    ELSE ok_or_Value(from_veekun(k, parsed.val), parsed.val, default)

\* impl<T: FromVeekun> FromVeekunField for T
blanket_from_veekun_field(k, text, default) ==
    blanket_of_parsed(k, text, default, parse(k, text))

\* impl FromVeekunField for VeekunString
VeekunString_from_veekun_field(text, default) == Ok(text)

from_veekun_field(k, text, default) ==
    IF k = "VeekunString"
    THEN VeekunString_from_veekun_field(text, default)
    ELSE blanket_from_veekun_field(k, text, default)

\* default.and_then(|v| v.into()) : Option<VeekunOption<T>> -> Option<T>
default_into(default) == IF IsSome(default) THEN Unwrap(default) ELSE None

\* Result::map(|v| VeekunOption(Some(v)))
map_Some(r) == IF IsOk(r) THEN Ok(Some(r.val)) ELSE r

\* Mutant: only the empty field is None; a whitespace field goes to T.
VeekunOption_only_empty_is_none(k, text, default) ==
    IF Len(text) = 0
    THEN Ok(None)
    ELSE map_Some(from_veekun_field(k, text, default_into(default)))

\* A VeekunOption decoder that hands back the default for a blank field
VeekunOption_blank_is_default(k, text, default) ==
    IF all_whitespace(text)
    THEN IF IsSome(default) THEN Ok(Unwrap(default)) ELSE Ok(None)
    ELSE map_Some(from_veekun_field(k, text, default_into(default)))

\* impl<T: FromVeekunField> FromVeekunField for VeekunOption<T>
VeekunOption_from_veekun_field(k, text, default) ==
    IF all_whitespace(text)
    THEN Ok(None)
    ELSE map_Some(from_veekun_field(k, text, default_into(default)))

----------------------------------------------------------------------------
(* veekun::csv: records, errors and the field readers *)

\* veekun::csv::Error
Error_Csv                      == [tag |-> "Csv"]
Error_RecordLength(line, i)    == [tag |-> "RecordLength", line |-> line, index |-> i]
Error_Veekun(line, fld, error) ==
    [tag |-> "Veekun", line |-> line, field |-> fld, error |-> error]

\* veekun::csv::MiscError
MiscError(msg) == [tag |-> "Misc", msg |-> msg]

\* A csv::StringRecord: its position's line (None when it has no position)
\* and its fields.
StringRecord(line, fields) == [line |-> line, fields |-> fields]

get_line(rec) == rec.line

\* record.get(index).ok_or_else(RecordLength); index is zero-based
get_field(rec, i) ==
    IF i < Len(rec.fields)
    THEN Ok(rec.fields[i + 1])
    ELSE Error_RecordLength(get_line(rec), i)

\* An error wrapper that always reports the first field of the row
or_else_Veekun_field0(line, i, r) ==
    IF IsOk(r) THEN r ELSE [tag |-> "Veekun", line |-> line, field |-> 0,
                            error |-> r]

\* Result::or_else(|e| Err(Error::Veekun { line, field: index, error }))
or_else_Veekun(line, i, r) == IF IsOk(r) THEN r ELSE Error_Veekun(line, i, r)

\* veekun::csv::from_veekun_field: wraps the decoder's error with line and index
csv_from_veekun_field(k, w, line, i, text, default) ==
    or_else_Veekun(line, i,
        IF w THEN VeekunOption_from_veekun_field(k, text, default)
             ELSE from_veekun_field(k, text, default))

\* A reader that decodes before it checks the record's length: a supplied
\* default stands in for a missing field.
default_masks_missing_field(k, w, rec, i, f, default) ==
    IF ~IsOk(f)
    THEN IF default = None THEN f ELSE Ok(Unwrap(default))
    ELSE csv_from_veekun_field(k, w, get_line(rec), i, f.val, default)

\* let field = get_field(record, index)?; from_veekun_field(line, index, field, default)
field_then(k, w, rec, i, f, default) ==
    IF ~IsOk(f) THEN f
    ELSE csv_from_veekun_field(k, w, get_line(rec), i, f.val, default)

\* veekun::csv::from_field::<T>, T = k or VeekunOption<k> (w)
from_field(k, w, rec, i) ==
    field_then(k, w, rec, i, get_field(rec, i), None)

\* veekun::csv::from_option_field::<T>
from_option_field(k, w, rec, i, default) ==
    field_then(k, w, rec, i, get_field(rec, i), Some(default))

----------------------------------------------------------------------------
(* FromCsvIncremental::load_csv_record: the outcome is the Result returned  *)
(* (or a panic) and the table as the call left it.                          *)

Unit == <<>>
Panic(msg) == [tag |-> "Panic", msg |-> msg]

Loaded(self)      == [res |-> Ok(Unit), state |-> self]
Failed(self, err) == [res |-> err, state |-> self]

\* Index / IndexMut of a Vec or array: an index outside the table panics
IndexPanic == Panic("index out of bounds")

\* self[i] = v
set_slot(self, i, v) ==
    IF i \in DOMAIN self THEN Loaded([self EXCEPT ![i] = v])
    ELSE Failed(self, IndexPanic)

\* A push that puts the new element in front of the ones already there
push_front(self, i, v) ==
    IF i \in DOMAIN self THEN Loaded([self EXCEPT ![i] = <<v>> \o @])
    ELSE Failed(self, IndexPanic)

\* self[i].push(v)
push_slot(self, i, v) ==
    IF i \in DOMAIN self THEN Loaded([self EXCEPT ![i] = Append(@, v)])
    ELSE Failed(self, IndexPanic)

\* HashMap::insert
MapInsert(m, k, v) ==
    [x \in (DOMAIN m) \cup {k} |-> IF x = k THEN v ELSE m[x]]

\* The first error of a sequence of field reads made in this order with `?`
RECURSIVE FirstError(_, _)
FirstError(reads, i) ==
    IF i > Len(reads) THEN None
    ELSE IF ~IsOk(reads[i]) THEN Some(reads[i])
    ELSE FirstError(reads, i + 1)

\* The raw move id from which the move tables mean to skip rows
SKIP_MOVE_ID == 10000

\* items::flags::FlagTable (HashMap<ItemId, Flags>)
ItemFlagTable_from_empty_csv == <<>>

\* Mutant: the new flag replaces the flags stored for the id.
replace_flags(self, id, flag) == flag

\* self.0.get(&id).map_or(flag, |v| flag | *v)
or_flags(self, id, flag) ==
    IF id \in DOMAIN self THEN BitOr(flag, self[id]) ELSE flag

\* load_csv_record once `id` and `flag` are the two from_field results
ItemFlagTable_insert(self, id, flag) ==
    IF ~IsOk(id) THEN Failed(self, id)
    ELSE IF ~IsOk(flag) THEN Failed(self, flag)
    ELSE Loaded(MapInsert(self, id.val, or_flags(self, id.val, flag.val)))

ItemFlagTable_load_csv_record(self, rec) ==
    ItemFlagTable_insert(self, from_field("ItemId", FALSE, rec, 0),
                               from_field("ItemFlags", FALSE, rec, 1))

\* moves::meta::flags::FlagTable (HashMap<MoveId, Flags>)
MoveFlagTable_from_empty_csv == <<>>

\* load_csv_record once `id` and `flag` are the two from_field results
MoveFlagTable_insert(self, id, flag) ==
    IF ~IsOk(id) THEN Failed(self, id)
    ELSE IF id.val >= SKIP_MOVE_ID THEN Loaded(self)
    ELSE IF ~IsOk(flag) THEN Failed(self, flag)
    ELSE Loaded(MapInsert(self, id.val, or_flags(self, id.val, flag.val)))

MoveFlagTable_load_csv_record(self, rec) ==
    MoveFlagTable_insert(self, from_field("MoveId", FALSE, rec, 0),
                               from_field("MoveFlags", FALSE, rec, 1))

\* moves::meta::CHANGEABLE_STATS
CHANGEABLE_STATS == 7

\* moves::meta::StatChangeTable (HashMap<MoveId, [i8; CHANGEABLE_STATS]>)
StatChangeTable_from_empty_csv == <<>>

\* self.0.get(&id).map_or([0; CHANGEABLE_STATS], |v| *v)
stat_changes_of(self, id) ==
    IF id \in DOMAIN self THEN self[id]
    ELSE [i \in 0..(CHANGEABLE_STATS - 1) |-> 0]

\* stat_changes[stat.repr() as usize] = change; self.0.insert(id, stat_changes)
\* (-1 as usize is out of bounds)
set_stat_change(self, id, stat, change) ==
    IF stat \notin 0..(CHANGEABLE_STATS - 1)
    THEN Failed(self, Panic("index out of bounds"))
    ELSE Loaded(MapInsert(self, id,
                    [stat_changes_of(self, id) EXCEPT ![stat] = change]))

\* load_csv_record once id, stat and change are the from_field results
StatChangeTable_insert(self, id, stat, change) ==
    IF ~IsOk(id) THEN Failed(self, id)
    ELSE IF id.val >= SKIP_MOVE_ID THEN Loaded(self)
    ELSE IF ~IsOk(stat) THEN Failed(self, stat)
    ELSE IF ~IsOk(change) THEN Failed(self, change)
    ELSE set_stat_change(self, id.val, stat.val, change.val)

StatChangeTable_load_csv_record(self, rec) ==
    StatChangeTable_insert(self, from_field("MoveId", FALSE, rec, 0),
                                 from_field("Stat", FALSE, rec, 1),
                                 from_field("i8", FALSE, rec, 2))

\* moves::meta::Meta, Default
Meta_default ==
    [category |-> 13, ailment |-> -1, hits |-> None, turns |-> None,
     recoil |-> 0, healing |-> 0, critical_rate |-> 0, ailment_chance |-> 0,
     flinch_chance |-> 0, stat_chance |-> 0,
     stat_changes |-> [i \in 0..(CHANGEABLE_STATS - 1) |-> 0], flags |-> 0]

\* Some((min, max)) when both are present
min_max(min, max) ==
    IF IsSome(min) /\ IsSome(max) THEN Some(<<Unwrap(min), Unwrap(max)>>)
    ELSE None

\* moves::meta::MetaTable ([Meta; MOVE_COUNT])
MetaTable_from_empty_csv == [i \in 0..(MOVE_COUNT - 1) |-> Meta_default]

\* The Meta built from the field reads r, made in this order: min_hits,
\* max_hits, min_turns, max_turns, category, ailment, recoil, healing,
\* critical_rate, ailment_chance, flinch_chance, stat_chance
Meta_of(r) ==
    [category |-> r[5].val,
     ailment |-> r[6].val,
     hits |-> min_max(r[1].val, r[2].val),
     turns |-> min_max(r[3].val, r[4].val),
     recoil |-> r[7].val,
     healing |-> r[8].val,
     critical_rate |-> r[9].val,
     ailment_chance |-> r[10].val,
     flinch_chance |-> r[11].val,
     stat_chance |-> r[12].val,
     stat_changes |-> [i \in 0..(CHANGEABLE_STATS - 1) |-> 0],
     flags |-> 0]

\* load_csv_record once id and the other reads r are the from_field results
MetaTable_store(self, id, r) ==
    IF ~IsOk(id) THEN Failed(self, id)
    ELSE IF id.val >= SKIP_MOVE_ID THEN Loaded(self)
    ELSE IF IsSome(FirstError(r, 1)) THEN Failed(self, Unwrap(FirstError(r, 1)))
    ELSE set_slot(self, id.val, Meta_of(r))

MetaTable_load_csv_record(self, rec) ==
    MetaTable_store(self, from_field("MoveId", FALSE, rec, 0),
        <<from_field("u8", TRUE, rec, 3),
          from_field("u8", TRUE, rec, 4),
          from_field("u8", TRUE, rec, 5),
          from_field("u8", TRUE, rec, 6),
          from_field("Category", FALSE, rec, 1),
          from_field("Ailment", FALSE, rec, 2),
          from_field("i8", FALSE, rec, 7),
          from_field("i8", FALSE, rec, 8),
          from_field("i8", FALSE, rec, 9),
          from_field("u8", FALSE, rec, 10),
          from_field("u8", FALSE, rec, 11),
          from_field("u8", FALSE, rec, 12)>>)

\* moves::Move, Default
Move_default ==
    [id |-> U16_MAX, name |-> <<>>, generation |-> 4, typ |-> 0, power |-> 0,
     pp |-> 0, accuracy |-> None, priority |-> 0, target |-> 0,
     damage_class |-> 0, effect |-> 86, effect_chance |-> None,
     meta |-> Meta_default]

\* moves::MoveTable (Vec<Move> of MOVE_COUNT moves)
MoveTable_from_empty_csv == [i \in 0..(MOVE_COUNT - 1) |-> Move_default]

\* The Move built from id and the field reads r, made in this order:
\* accuracy, effect_chance, name, generation, typ, power, pp, priority,
\* target, damage_class, effect
Move_of(id, r) ==
    [id |-> id,
     name |-> to_pascal_case(r[3].val),
     generation |-> r[4].val,
     typ |-> r[5].val,
     power |-> r[6].val,
     pp |-> r[7].val,
     accuracy |-> r[1].val,
     priority |-> r[8].val,
     target |-> r[9].val,
     damage_class |-> r[10].val,
     effect |-> r[11].val,
     effect_chance |-> r[2].val,
     meta |-> Meta_default]

\* load_csv_record once id and the other reads r are the field results
MoveTable_store(self, id, r) ==
    IF ~IsOk(id) THEN Failed(self, id)
    ELSE IF id.val >= SKIP_MOVE_ID THEN Loaded(self)
    ELSE IF IsSome(FirstError(r, 1)) THEN Failed(self, Unwrap(FirstError(r, 1)))
    ELSE set_slot(self, id.val, Move_of(id.val, r))

MoveTable_load_csv_record(self, rec) ==
    MoveTable_store(self, from_field("MoveId", FALSE, rec, 0),
        <<from_field("u8", TRUE, rec, 6),
          from_field("u8", TRUE, rec, 11),
          get_field(rec, 1),
          from_field("Generation", FALSE, rec, 2),
          from_field("Type", FALSE, rec, 3),
          from_field("u8", FALSE, rec, 4),
          from_option_field("u8", FALSE, rec, 5, 0),
          from_field("i8", FALSE, rec, 7),
          from_field("Target", FALSE, rec, 8),
          from_field("DamageClass", FALSE, rec, 9),
          from_field("Effect", FALSE, rec, 10)>>)

----------------------------------------------------------------------------
(* natures::PalaceTable *)

Nature_COUNT == 25

\* u8 + u8: the sum when it fits; beyond u8::MAX the debug profile panics
\* and the release profile wraps
u8_add(a, b, checks) ==
    IF a + b <= U8_MAX THEN Ok(a + b)
    ELSE IF checks THEN Panic("attempt to add with overflow")
    ELSE Ok((a + b) % (U8_MAX + 1))

\* (a + b) + c, where r is the outcome of a + b
u8_add_then(r, c, checks) == IF ~IsOk(r) THEN r ELSE u8_add(r.val, c, checks)

\* attack + defense + support, evaluated left to right in u8
u8_sum3(a, b, c, checks) == u8_add_then(u8_add(a, b, checks), c, checks)

\* natures::HalfPalaceTable, Default
HalfPalaceTable_default ==
    [attack  |-> [i \in 0..(Nature_COUNT - 1) |-> 0],
     defense |-> [i \in 0..(Nature_COUNT - 1) |-> 0]]

PalaceTable_from_empty_csv ==
    [low |-> HalfPalaceTable_default, high |-> HalfPalaceTable_default]

\* match record.position() { Some(p) => p.line(), None => 0 }
position_line(rec) == IF IsSome(rec.line) THEN Unwrap(rec.line) ELSE 0

Palace_error(line, fld) ==
    Error_Veekun(Some(line), fld, MiscError("Preferences must sum to 100."))

\* The BattleStyle::Support arm once the two sums are computed: the low sum
\* is computed and compared first
Palace_check(self, line, low_sum, high_sum) ==
    IF ~IsOk(low_sum) THEN Failed(self, low_sum)
    ELSE IF low_sum.val # 100 THEN Failed(self, Palace_error(line, 2))
    ELSE IF ~IsOk(high_sum) THEN Failed(self, high_sum)
    ELSE IF high_sum.val # 100 THEN Failed(self, Palace_error(line, 3))
    ELSE Loaded(self)

\* match style { Attack => .., Defense => .., Support => .. }
Palace_match(self, rec, nature_id, style, low, high, checks) ==
    CASE style = 0 ->
            Loaded([self EXCEPT !.low.attack[nature_id] = low,
                                !.high.attack[nature_id] = high])
      [] style = 1 ->
            Loaded([self EXCEPT !.low.defense[nature_id] = low,
                                !.high.defense[nature_id] = high])
      [] style = 2 ->
            Palace_check(self, position_line(rec),
                u8_sum3(self.low.attack[nature_id],
                        self.low.defense[nature_id], low, checks),
                u8_sum3(self.high.attack[nature_id],
                        self.high.defense[nature_id], high, checks))

\* load_csv_record once nature, style, low and high are the from_field results
Palace_store(self, rec, nature, style, low, high, checks) ==
    IF ~IsOk(nature) THEN Failed(self, nature)
    ELSE IF ~IsOk(style) THEN Failed(self, style)
    ELSE IF ~IsOk(low) THEN Failed(self, low)
    ELSE IF ~IsOk(high) THEN Failed(self, high)
    ELSE Palace_match(self, rec, nature.val, style.val, low.val, high.val,
                      checks)

PalaceTable_load_csv_record(self, rec, checks) ==
    Palace_store(self, rec, from_field("Nature", FALSE, rec, 0),
                            from_field("BattleStyle", FALSE, rec, 1),
                            from_field("u8", FALSE, rec, 2),
                            from_field("u8", FALSE, rec, 3), checks)

----------------------------------------------------------------------------
(* items::berries::BerryFlavorTable and BerryTable::set_flavors *)

\* Flavor::VALUES: Spicy, Sour, Sweet, Dry, Bitter
Flavor_VALUES == <<0, 1, 2, 3, 4>>

\* items::berries::BerryFlavorTable, Default
BerryFlavorTable_from_empty_csv ==
    [spicy  |-> [i \in 0..(BERRY_COUNT - 1) |-> 0],
     sour   |-> [i \in 0..(BERRY_COUNT - 1) |-> 0],
     sweet  |-> [i \in 0..(BERRY_COUNT - 1) |-> 0],
     dry    |-> [i \in 0..(BERRY_COUNT - 1) |-> 0],
     bitter |-> [i \in 0..(BERRY_COUNT - 1) |-> 0]]

\* impl Index<Flavor> for BerryFlavorTable
BerryFlavorTable_index(self, flavor) ==
    CASE flavor = 0 -> self.spicy
      [] flavor = 1 -> self.sour
      [] flavor = 2 -> self.sweet
      [] flavor = 3 -> self.dry
      [] flavor = 4 -> self.bitter

\* impl IndexMut<Flavor> for BerryFlavorTable: self[flavor][id] = value
BerryFlavorTable_set(self, flavor, id, value) ==
    CASE flavor = 0 -> [self EXCEPT !.spicy[id] = value]
      [] flavor = 1 -> [self EXCEPT !.sour[id] = value]
      [] flavor = 2 -> [self EXCEPT !.sweet[id] = value]
      [] flavor = 3 -> [self EXCEPT !.dry[id] = value]
      [] flavor = 4 -> [self EXCEPT !.bitter[id] = value]

\* load_csv_record once id, contest_type and value are the from_field results
BerryFlavorTable_store(self, id, contest_type, value) ==
    IF ~IsOk(id) THEN Failed(self, id)
    ELSE IF ~IsOk(contest_type) THEN Failed(self, contest_type)
    ELSE IF ~IsOk(value) THEN Failed(self, value)
    ELSE Loaded(BerryFlavorTable_set(self,
                    Flavor_from_ContestType(contest_type.val), id.val,
                    value.val))

BerryFlavorTable_load_csv_record(self, rec) ==
    BerryFlavorTable_store(self, from_field("BerryId", FALSE, rec, 0),
                                 from_field("ContestType", FALSE, rec, 1),
                                 from_field("u8", FALSE, rec, 2))

\* items::berries::Berry, Default
Berry_default ==
    [item |-> 0, natural_gift_power |-> 0, natural_gift_type |-> 0,
     flavor |-> None]

\* items::berries::BerryTable ([Berry; BERRY_COUNT]), Default
BerryTable_from_empty_csv == [i \in 0..(BERRY_COUNT - 1) |-> Berry_default]

\* The Berry built from the field reads r, made in this order: item,
\* natural_gift_power, natural_gift_type
Berry_of(r) ==
    [item |-> r[1].val, natural_gift_power |-> r[2].val,
     natural_gift_type |-> r[3].val, flavor |-> None]

\* load_csv_record once id and the other reads r are the from_field results
BerryTable_store(self, id, r) ==
    IF ~IsOk(id) THEN Failed(self, id)
    ELSE IF IsSome(FirstError(r, 1)) THEN Failed(self, Unwrap(FirstError(r, 1)))
    ELSE set_slot(self, id.val, Berry_of(r))

BerryTable_load_csv_record(self, rec) ==
    BerryTable_store(self, from_field("BerryId", FALSE, rec, 0),
        <<from_field("ItemId", FALSE, rec, 1),
          from_field("u8", FALSE, rec, 3),
          from_field("Type", FALSE, rec, 4)>>)

\* The scan's (max_flavor, max_value) before the first flavor
flavor_scan_start == [max_flavor |-> None, max_value |-> 0]

\* Mutant: a flavor whose weight equals the greatest so far takes its place.
flavor_scan_last_wins(acc, flavor, value) ==
    IF value >= acc.max_value
    THEN [max_flavor |-> Some(flavor), max_value |-> value]
    ELSE acc

\* The body of `for &flavor in Flavor::VALUES`
flavor_scan(acc, flavor, value) ==
    IF value > acc.max_value
    THEN [max_flavor |-> Some(flavor), max_value |-> value]
    ELSE IF value = acc.max_value
    THEN [max_flavor |-> None, max_value |-> acc.max_value]
    ELSE acc

\* The loop over Flavor::VALUES from position i on, for berry id
RECURSIVE flavor_scan_from(_, _, _, _)
flavor_scan_from(flavors_table, id, i, acc) ==
    IF i > Len(Flavor_VALUES) THEN acc
    ELSE flavor_scan_from(flavors_table, id, i + 1,
            flavor_scan(acc, Flavor_VALUES[i],
                BerryFlavorTable_index(flavors_table, Flavor_VALUES[i])[id]))

\* BerryTable::set_flavors
set_flavors(self, flavors_table) ==
    [id \in 0..(BERRY_COUNT - 1) |->
        [self[id] EXCEPT !.flavor =
            flavor_scan_from(flavors_table, id, 1, flavor_scan_start).max_flavor]]

----------------------------------------------------------------------------
(* pokemon: the species table and the tables joined into it.  The ability, *)
(* move and stat tables of a pokemon are joined like its forms and types    *)
(* and are left out; crate::Ability is not part of the sources.             *)

\* OneOrTwo<T>: One(t) is <<t>>, Two(t, u) is <<t, u>>.
\* OneOrTwo::from_options([first, second])
OneOrTwo_from_options(first, second) ==
    IF IsSome(first) THEN Some(first \o second)
    ELSE IF IsSome(second) THEN Some(second)
    ELSE None

\* Vec::get(i).map(|g| *g), i zero-based
get_copied(v, i) == IF i < Len(v) THEN Some(v[i + 1]) ELSE None

\* pokemon::Pokemon, Default (PokemonId(u16::MAX), no form, One(Type::Normal))
Pokemon_default == [id |-> U16_MAX, forms |-> <<>>, types |-> <<0>>]

\* self[species_id].push(Pokemon { id: pokemon_id, .. Default::default() })
PokemonTable_push(self, pokemon_id, species_id) ==
    IF ~IsOk(pokemon_id) THEN Failed(self, pokemon_id)
    ELSE IF ~IsOk(species_id) THEN Failed(self, species_id)
    ELSE push_slot(self, species_id.val,
                   [Pokemon_default EXCEPT !.id = pokemon_id.val])

PokemonTable_load_csv_record(self, rec) ==
    PokemonTable_push(self, from_field("PokemonId", FALSE, rec, 0),
                            from_field("SpeciesId", FALSE, rec, 1))

\* The reads r are made in this order: form_id, name, pokemon_id, battle_only
FormTable_push(self, r) ==
    IF IsSome(FirstError(r, 1)) THEN Failed(self, Unwrap(FirstError(r, 1)))
    ELSE push_slot(self, r[3].val,
                   [id |-> r[1].val, name |-> r[2].val,
                    battle_only |-> (r[4].val # 0)])

FormTable_load_csv_record(self, rec) ==
    FormTable_push(self,
        <<from_field("u16", FALSE, rec, 0),
          from_field("VeekunString", TRUE, rec, 1),
          from_field("PokemonId", FALSE, rec, 2),
          from_field("u8", FALSE, rec, 5)>>)

\* slot - 1 in usize: 0 - 1 panics with overflow checks and wraps to
\* usize::MAX, which is out of the array's bounds, without them
slot_index(self, id, typ, slot, checks) ==
    IF slot = 0 /\ checks
    THEN Failed(self, Panic("attempt to subtract with overflow"))
    ELSE IF slot = 0 \/ slot > Len(self[id]) THEN Failed(self, IndexPanic)
    ELSE Loaded([self EXCEPT ![id][slot] = Some(typ)])

\* `if slot < 1 && slot > 2` holds for no slot: the Err is never returned.
\* self[id][slot - 1] = Some(typ)
TypeTable_set(self, id, typ, slot, checks) ==
    IF ~IsOk(id) THEN Failed(self, id)
    ELSE IF ~IsOk(typ) THEN Failed(self, typ)
    ELSE IF ~IsOk(slot) THEN Failed(self, slot)
    ELSE IF id.val \notin DOMAIN self THEN Failed(self, IndexPanic)
    ELSE slot_index(self, id.val, typ.val, slot.val, checks)

TypeTable_load_csv_record(self, rec, checks) ==
    TypeTable_set(self, from_field("PokemonId", FALSE, rec, 0),
                        from_field("Type", FALSE, rec, 1),
                        from_field("usize", FALSE, rec, 2), checks)

\* self[id].push(egg_group)
EggGroupTable_push(self, id, egg_group) ==
    IF ~IsOk(id) THEN Failed(self, id)
    ELSE IF ~IsOk(egg_group) THEN Failed(self, egg_group)
    ELSE push_slot(self, id.val, egg_group.val)

EggGroupTable_load_csv_record(self, rec) ==
    EggGroupTable_push(self, from_field("SpeciesId", FALSE, rec, 0),
                             from_field("EggGroup", FALSE, rec, 1))

\* pokemon::EvolvesFrom, Default
EvolvesFrom_default ==
    [from_id |-> U16_MAX, trigger |-> 2, level |-> 0, gender |-> 3,
     move_id |-> U16_MAX, relative_physical_stats |-> None]

\* The reads r are made in this order: species_id, trigger, level, gender,
\* move_id, relative_physical_stats
EvolutionTable_insert(self, r) ==
    IF IsSome(FirstError(r, 1)) THEN Failed(self, Unwrap(FirstError(r, 1)))
    ELSE Loaded(MapInsert(self, r[1].val,
            [from_id |-> U16_MAX, trigger |-> r[2].val, level |-> r[3].val,
             gender |-> r[4].val, move_id |-> r[5].val,
             relative_physical_stats |-> r[6].val]))

EvolutionTable_load_csv_record(self, rec) ==
    EvolutionTable_insert(self,
        <<from_field("SpeciesId", FALSE, rec, 1),
          from_field("EvolutionTrigger", FALSE, rec, 2),
          from_option_field("u8", FALSE, rec, 4, 0),
          from_option_field("Gender", FALSE, rec, 5, 3),
          from_option_field("MoveId", FALSE, rec, 9, U16_MAX),
          from_field("i8", TRUE, rec, 12)>>)

\* pokemon::Species, Default
Species_default ==
    [id |-> U16_MAX, name |-> <<>>, generation |-> 4, gender_rate |-> 0,
     pokemon |-> <<>>, egg_groups |-> <<15>>, evolves_from |-> None]

\* self[id].id = id; .name = ..; .generation = ..; .gender_rate = ..
\* with the reads r made in this order: identifier, generation, gender_rate
Species_assign(entry, id, r) ==
    [entry EXCEPT !.id = id, !.name = to_pascal_case(r[1].val),
                    !.generation = r[2].val, !.gender_rate = r[3].val]

\* if let VeekunOption(Some(from_id)) = from_field(&record, 3)? { .. }
SpeciesTable_set_evolves_from(self, id, from_id) ==
    IF ~IsOk(from_id) THEN Failed(self, from_id)
    ELSE IF IsSome(from_id.val)
    THEN Loaded([self EXCEPT ![id].evolves_from =
            Some([EvolvesFrom_default EXCEPT !.from_id = Unwrap(from_id.val)])])
    ELSE Loaded(self)

SpeciesTable_store(self, id, r, from_id) ==
    IF ~IsOk(id) THEN Failed(self, id)
    ELSE IF IsSome(FirstError(r, 1)) THEN Failed(self, Unwrap(FirstError(r, 1)))
    ELSE IF id.val \notin DOMAIN self THEN Failed(self, IndexPanic)
    ELSE SpeciesTable_set_evolves_from(
            [self EXCEPT ![id.val] = Species_assign(@, id.val, r)],
            id.val, from_id)

SpeciesTable_load_csv_record(self, rec) ==
    SpeciesTable_store(self, from_field("SpeciesId", FALSE, rec, 0),
        <<from_field("VeekunString", FALSE, rec, 1),
          from_field("Generation", FALSE, rec, 2),
          from_field("i8", FALSE, rec, 8)>>,
        from_field("SpeciesId", TRUE, rec, 3))

----------------------------------------------------------------------------
(* pokemon::BaseStats and pokemon::StatTable *)

\* pokemon::PERMANENT_STATS
PERMANENT_STATS == 6

\* BaseStats([u8; PERMANENT_STATS]), Default
BaseStats_default == [i \in 0..(PERMANENT_STATS - 1) |-> 0]

\* StatTable([BaseStats; POKEMON_COUNT]), Default
StatTable_from_empty_csv == [i \in 0..(POKEMON_COUNT - 1) |-> BaseStats_default]

\* impl IndexMut<Stat> for BaseStats: &mut self.0[(index.repr() + 1) as usize]
\* in `self[id][stat] = base`
BaseStats_set(self, id, stat, base) ==
    IF (stat + 1) \notin 0..(PERMANENT_STATS - 1)
    THEN Failed(self, IndexPanic)
    ELSE Loaded([self EXCEPT ![id][stat + 1] = base])

\* load_csv_record once id, stat and base are the from_field results
StatTable_set(self, id, stat, base) ==
    IF ~IsOk(id) THEN Failed(self, id)
    ELSE IF ~IsOk(stat) THEN Failed(self, stat)
    ELSE IF ~IsOk(base) THEN Failed(self, base)
    ELSE IF id.val \notin DOMAIN self THEN Failed(self, IndexPanic)
    ELSE BaseStats_set(self, id.val, stat.val, base.val)

StatTable_load_csv_record(self, rec) ==
    StatTable_set(self, from_field("PokemonId", FALSE, rec, 0),
                        from_field("Stat", FALSE, rec, 1),
                        from_field("u8", FALSE, rec, 2))

----------------------------------------------------------------------------
(* FromCsv::from_csv for T: FromCsvIncremental *)

from_empty_csv(t) ==
    CASE t = "ItemFlagTable" -> ItemFlagTable_from_empty_csv
      [] t = "MoveFlagTable" -> MoveFlagTable_from_empty_csv
      [] t = "StatChangeTable" -> StatChangeTable_from_empty_csv
      [] t = "StatTable" -> StatTable_from_empty_csv
      [] t = "MetaTable" -> MetaTable_from_empty_csv
      [] t = "MoveTable" -> MoveTable_from_empty_csv
      [] t = "PalaceTable" -> PalaceTable_from_empty_csv
      [] t = "BerryFlavorTable" -> BerryFlavorTable_from_empty_csv
      [] t = "BerryTable" -> BerryTable_from_empty_csv
      [] t = "PokemonTable" -> [i \in 0..(SPECIES_COUNT - 1) |-> <<>>]
      [] t = "FormTable" -> [i \in 0..(POKEMON_COUNT - 1) |-> <<>>]
      [] t = "TypeTable" -> [i \in 0..(POKEMON_COUNT - 1) |-> <<None, None>>]
      [] t = "EggGroupTable" -> [i \in 0..(SPECIES_COUNT - 1) |-> <<>>]
      [] t = "EvolutionTable" -> <<>>
      [] t = "SpeciesTable" -> [i \in 0..(SPECIES_COUNT - 1) |-> Species_default]

load_csv_record(t, self, rec, checks) ==
    CASE t = "ItemFlagTable" -> ItemFlagTable_load_csv_record(self, rec)
      [] t = "MoveFlagTable" -> MoveFlagTable_load_csv_record(self, rec)
      [] t = "StatChangeTable" -> StatChangeTable_load_csv_record(self, rec)
      [] t = "StatTable" -> StatTable_load_csv_record(self, rec)
      [] t = "MetaTable" -> MetaTable_load_csv_record(self, rec)
      [] t = "MoveTable" -> MoveTable_load_csv_record(self, rec)
      [] t = "PalaceTable" -> PalaceTable_load_csv_record(self, rec, checks)
      [] t = "BerryFlavorTable" -> BerryFlavorTable_load_csv_record(self, rec)
      [] t = "BerryTable" -> BerryTable_load_csv_record(self, rec)
      [] t = "PokemonTable" -> PokemonTable_load_csv_record(self, rec)
      [] t = "FormTable" -> FormTable_load_csv_record(self, rec)
      [] t = "TypeTable" -> TypeTable_load_csv_record(self, rec, checks)
      [] t = "EggGroupTable" -> EggGroupTable_load_csv_record(self, rec)
      [] t = "EvolutionTable" -> EvolutionTable_load_csv_record(self, rec)
      [] t = "SpeciesTable" -> SpeciesTable_load_csv_record(self, rec)

\* Mutant: a failing record is dropped and the loop goes on.
loaded_skips_failed(o) == [state |-> o.state, result |-> Running]

\* state.load_csv_record(record)?: the loop goes on after Ok(()), and returns
\* the error otherwise
loaded(o) ==
    [state |-> o.state, result |-> IF IsOk(o.res) THEN Running ELSE o.res]

\* One iteration of `for result in reader.records()`:
\*   let record = result?; state.load_csv_record(record)?;
from_csv_step(t, st, item, checks) ==
    IF ~IsOk(item)
    THEN [state |-> st, result |-> item]
    ELSE loaded(load_csv_record(t, st, item.val, checks))

----------------------------------------------------------------------------
(* The rows the reader may yield *)

MaxRows == 3

DigitChar == <<"0", "1", "2", "3", "4", "5", "6", "7", "8", "9">>

\* The decimal text of a natural number, as it is written in a CSV field
RECURSIVE NatText(_)
NatText(n) ==
    IF n < 10 THEN <<DigitChar[n + 1]>>
    ELSE NatText(n \div 10) \o <<DigitChar[(n % 10) + 1]>>

\* The (low, high) weights of the palace rows: a nature's three rows can sum
\* to 100 in both contexts, miss 100 in either, or pass u8::MAX
PalacePairs ==
    {<<30, 20>>, <<40, 60>>, <<60, 40>>, <<41, 60>>, <<40, 61>>, <<204, 204>>}

\* The records of each table's CSV file the model draws from: well-formed
\* rows, rows with a field its decoder rejects, and a row that is too short.
RowSet(t) ==
    CASE t = "ItemFlagTable" ->
            {<<NatText(i), NatText(f)>> : i \in {0, 1, 2}, f \in {1, 2}}
            \cup {<<NatText(1), NatText(9)>>, <<NatText(1)>>}
      [] t = "MoveFlagTable" ->
            {<<NatText(i), NatText(f)>> : i \in {1, 2, 10001}, f \in {1, 14}}
            \cup {<<NatText(1), NatText(15)>>, <<NatText(1)>>}
      [] t = "StatChangeTable" ->
            {<<NatText(i), NatText(st), c>> :
                i \in {1, MOVE_COUNT, SKIP_MOVE_ID, SKIP_MOVE_ID + 1},
                st \in {1, 2, 8}, c \in {<<"1">>, <<"-", "1">>}}
            \cup {<<NatText(1), NatText(9), <<"1">> >>, <<NatText(1)>>}
      [] t = "StatTable" ->
            {<<NatText(p), NatText(st), NatText(45)>> :
                p \in {1, POKEMON_COUNT}, st \in {1, 2, 6, 7, 8}}
            \cup {<<NatText(1), NatText(9), NatText(45)>>, <<NatText(1)>>}
      [] t = "MetaTable" ->
            {<<NatText(i), NatText(0), NatText(0), h, h, <<>>, <<>>,
               NatText(0), NatText(0), NatText(0), NatText(0), NatText(0),
               NatText(0)>> :
                i \in {1, MOVE_COUNT, SKIP_MOVE_ID, SKIP_MOVE_ID + 1},
                h \in {<<>>, NatText(2)}}
            \cup {<<NatText(1), NatText(14)>>, <<NatText(1)>>}
      [] t = "MoveTable" ->
            {<<NatText(i), <<"a", "-", "b">>, NatText(1), NatText(1),
               NatText(40), pp, NatText(100), NatText(0), NatText(10),
               NatText(2), NatText(1), <<>> >> :
                i \in {1, MOVE_COUNT, SKIP_MOVE_ID, SKIP_MOVE_ID + 1},
                pp \in {<<>>, NatText(35)}}
            \cup {<<NatText(1), <<"a">>, NatText(6)>>, <<NatText(1)>>}
      [] t = "PalaceTable" ->
            {<<NatText(1), NatText(st), NatText(p[1]), NatText(p[2])>> :
                st \in {1, 2, 3}, p \in PalacePairs}
            \cup {<<NatText(25), NatText(3), NatText(100), NatText(100)>>,
                  <<NatText(26), NatText(1), NatText(30), NatText(20)>>,
                  <<NatText(1), NatText(3), NatText(40)>>}
      [] t = "BerryTable" ->
            {<<NatText(i), NatText(126), NatText(1), NatText(60),
               NatText(10)>> : i \in {0, 1, BERRY_COUNT, BERRY_COUNT + 1}}
            \cup {<<NatText(1), NatText(0)>>, <<NatText(1)>>}
      [] t = "PokemonTable" ->
            {<<NatText(p), NatText(sp)>> :
                p \in {1, 2, POKEMON_COUNT + 1},
                sp \in {1, SPECIES_COUNT, SPECIES_COUNT + 1}}
            \cup {<<NatText(1)>>}
      [] t = "FormTable" ->
            {<<NatText(f), nb[1], NatText(p), <<>>, <<>>, nb[2]>> :
                f \in {1, 2}, p \in {1, POKEMON_COUNT + 1},
                nb \in {<<<<>>, NatText(0)>>, <<<<"a">>, NatText(1)>>}}
            \cup {<<NatText(1), <<>>, NatText(1)>>}
      [] t = "TypeTable" ->
            {<<NatText(p), NatText(ty), NatText(sl)>> :
                p \in {POKEMON_COUNT, POKEMON_COUNT + 1},
                ty \in {1, 18}, sl \in {0, 1, 2, 3}}
            \cup {<<NatText(1), NatText(1)>>}
      [] t = "EggGroupTable" ->
            {<<NatText(sp), NatText(g)>> :
                sp \in {1, SPECIES_COUNT, SPECIES_COUNT + 1},
                g \in {1, 15, 16}}
            \cup {<<NatText(1)>>}
      [] t = "EvolutionTable" ->
            {<<NatText(1), NatText(sp), NatText(tr), <<>>, lv, <<>>, <<>>,
               <<>>, <<>>, <<>>, <<>>, <<>>, <<>> >> :
                sp \in {1, 2, SPECIES_COUNT + 1}, tr \in {1, 5},
                lv \in {<<>>, NatText(16)}}
            \cup {<<NatText(1), NatText(2)>>}
      [] t = "SpeciesTable" ->
            {<<NatText(sp), <<"a">>, NatText(1), ev, <<>>, <<>>, <<>>, <<>>,
               NatText(4)>> :
                sp \in {1, SPECIES_COUNT, SPECIES_COUNT + 1},
                ev \in {<<>>, NatText(1), <<"x">>}}
            \cup {<<NatText(1), <<"a">>, NatText(1), NatText(1)>>}

\* The line of the next record: the header is line 1.
NextLine == Len(history) + 2

BerryIdle ==
    /\ flavors = <<>>
    /\ berries = <<>>
    /\ berry_pc = "idle"

FoldIdle ==
    /\ table = "none"
    /\ state = <<>>
    /\ result = Pending
    /\ history = <<>>
    /\ overflow_checks = FALSE

DecIdle ==
    /\ kind = "none"
    /\ wrapped = FALSE
    /\ record = StringRecord(None, <<>>)
    /\ index = 0
    /\ dflt = None
    /\ res = Pending

SpeciesIdle ==
    /\ data = <<>>
    /\ species = <<>>
    /\ species_pc = "idle"

\* The groups that take no part in a specification stay idle
CallIdle ==
    /\ call = "none"
    /\ arg = <<>>
    /\ ret = Pending

DexIdle ==
    /\ POKEDEX_ONCE = "idle"
    /\ POKEDEX = None
    /\ thread_pc = <<>>
    /\ got = <<>>
    /\ stack = <<>>
    /\ built = <<>>
    /\ joins = <<>>
    /\ runs = 0

NotDecIdle     == FoldIdle /\ BerryIdle /\ SpeciesIdle /\ CallIdle /\ DexIdle
NotFoldIdle    == DecIdle /\ BerryIdle /\ SpeciesIdle /\ CallIdle /\ DexIdle
NotBerryIdle   == DecIdle /\ FoldIdle /\ SpeciesIdle /\ CallIdle /\ DexIdle
NotSpeciesIdle == DecIdle /\ FoldIdle /\ BerryIdle /\ CallIdle /\ DexIdle
NotCallIdle    == DecIdle /\ FoldIdle /\ BerryIdle /\ SpeciesIdle /\ DexIdle
NotDexIdle     == DecIdle /\ FoldIdle /\ BerryIdle /\ SpeciesIdle /\ CallIdle

FoldInit(tables) ==
    /\ table \in tables
    /\ state = from_empty_csv(table)
    /\ result = Running
    /\ history = <<>>
    /\ overflow_checks \in BOOLEAN
    /\ NotFoldIdle

\* The variables after one iteration of the loop on `item` gave `step`
Iterate(item, step) ==
    /\ state' = step.state
    /\ result' = step.result
    /\ history' = Append(history, item)

\* The loop body runs on `item`
Yield(item) ==
    Iterate(item, from_csv_step(table, state, item, overflow_checks))

\* reader.records() yields Ok(record)
ReadRecord ==
    /\ result = Running
    /\ Len(history) < MaxRows
    /\ \E fields \in RowSet(table) :
         Yield(Ok(StringRecord(Some(NextLine), fields)))
    /\ UNCHANGED <<table, overflow_checks>>
    /\ UNCHANGED notFold

\* reader.records() yields Err(csv::Error)
ReadError ==
    /\ result = Running
    /\ Len(history) < MaxRows
    /\ Yield(Error_Csv)
    /\ UNCHANGED <<table, overflow_checks>>
    /\ UNCHANGED notFold

\* reader.records() is exhausted: Ok(state)
EndOfRecords ==
    /\ result = Running
    /\ result' = Ok(state)
    /\ UNCHANGED <<table, state, history, overflow_checks>>
    /\ UNCHANGED notFold

FoldNext == ReadRecord \/ ReadError \/ EndOfRecords

FlagTables == {"ItemFlagTable", "MoveFlagTable"}

Init == FoldInit(FlagTables)

Spec == Init /\ [][FoldNext]_vars

MoveTables == {"MoveTable", "MetaTable", "MoveFlagTable", "StatChangeTable"}

MovesInit == FoldInit(MoveTables)

SpecMoves == MovesInit /\ [][FoldNext]_vars

\* The tables held in a Vec or an array with one slot per identifier
DenseTables ==
    {"BerryTable", "MoveTable", "MetaTable", "SpeciesTable", "PokemonTable",
     "FormTable", "TypeTable", "EggGroupTable"}

DenseInit == FoldInit(DenseTables)

SpecDense == DenseInit /\ [][FoldNext]_vars

\* The tables with one array slot per stat
StatTables == {"StatChangeTable", "StatTable"}

StatsInit == FoldInit(StatTables)

SpecStats == StatsInit /\ [][FoldNext]_vars

PalaceInit == FoldInit({"PalaceTable"})

SpecPalace == PalaceInit /\ [][FoldNext]_vars

----------------------------------------------------------------------------
(* BerryTable::new: from_csv_data(BERRIES), then set_flavors with the table  *)
(* BerryFlavorTable::new() loaded                                            *)

MaxWeight == 2

\* The table after load_csv_record has taken the rows lo..hi in row order,
\* each of which it accepts.  The range is halved, and the table each half
\* starts from is a value computed once before the half is entered (bound
\* by the set constructor), which keeps the evaluation shallow on a long
\* file.
RECURSIVE load_range(_, _, _, _, _)
load_range(t, st, rows, lo, hi) ==
    IF lo > hi THEN st
    ELSE IF lo = hi
    THEN CHOOSE after \in
            {load_csv_record(t, self, StringRecord(Some(lo + 1), rows[lo]),
                             FALSE).state : self \in {st}} : TRUE
    ELSE CHOOSE after \in
            {load_range(t, left, rows, ((lo + hi) \div 2) + 1, hi) :
                left \in {load_range(t, st, rows, lo, (lo + hi) \div 2)}}
            : TRUE

\* The table after load_csv_record has taken the rows from row i on
load_rows(t, st, rows, i) == load_range(t, st, rows, i, Len(rows))

----------------------------------------------------------------------------
(* pokemon: the joins of PokemonTable::new() and SpeciesTable::new().  A    *)
(* join gives Loaded(table), or Failed(table, Panic(..)) when it panics     *)
(* (the table is then dropped while the panic unwinds).                     *)

\* Option::unwrap on None, and HashMap's Index on a missing key
UnwrapNonePanic == Panic("unwrap on None")
KeyPanic        == Panic("no entry found for key")

\* Each pokemon of each species, changed by Change(pokemon, aux)
each_pokemon(self, Change(_, _), aux) ==
    [sp \in DOMAIN self |->
        [k \in DOMAIN self[sp] |-> Change(self[sp][k], aux)]]

\* pokemon.forms = form_table[pokemon.id].clone()
with_forms(pokemon, form_table) ==
    [pokemon EXCEPT !.forms = form_table[pokemon.id]]

\* PokemonTable::set_forms
set_forms(self, form_table) ==
    Loaded(each_pokemon(self, with_forms, form_table))

\* OneOrTwo::from_options(type_table[pokemon.id])
types_of(options) == OneOrTwo_from_options(options[1], options[2])

\* pokemon.types = OneOrTwo::from_options(options).unwrap()
with_types(pokemon, type_table) ==
    [pokemon EXCEPT !.types = Unwrap(types_of(type_table[pokemon.id]))]

\* PokemonTable::set_types: unwrap panics at the first pokemon without a type
set_types(self, type_table) ==
    IF \E sp \in DOMAIN self : \E k \in DOMAIN self[sp] :
           types_of(type_table[self[sp][k].id]) = None
    THEN Failed(self, UnwrapNonePanic)
    ELSE Loaded(each_pokemon(self, with_types, type_table))

\* Join(self, aux), with the two tables computed once before the join
apply_join(Join(_, _), self, aux) ==
    CHOOSE o \in {Join(a, b) : a \in {self}, b \in {aux}} : TRUE

\* Join(o.state, aux) when the step that gave o did not panic, else o
and_then(Join(_, _), o, aux) ==
    CHOOSE r \in {IF IsOk(a.res) THEN Join(a.state, b) ELSE a :
                    a \in {o}, b \in {aux}} : TRUE

\* for result in reader.records() { state.load_csv_record(result?)?; } with
\* Load the table's load_csv_record, on rows each of which it accepts
rows_loaded(Load(_, _), st, rows) ==
    LET after[n \in 0..Len(rows)] ==
            IF n = 0 THEN st
            ELSE CHOOSE next \in
                    {Load(self, StringRecord(Some(n + 1), rows[n])).state :
                        self \in {after[n - 1]}} : TRUE
    IN  after[Len(rows)]

\* XTable::new() of a table without joins: from_csv_data(rows).unwrap()
new_table(Load(_, _), t, rows) == rows_loaded(Load, from_empty_csv(t), rows)

\* PokemonTable::new()
PokemonTable_new(d) ==
    and_then(set_types,
             apply_join(set_forms,
                new_table(PokemonTable_load_csv_record, "PokemonTable",
                          d.POKEMON),
                new_table(FormTable_load_csv_record, "FormTable", d.FORMS)),
             new_table(LAMBDA self, rec :
                            TypeTable_load_csv_record(self, rec, FALSE),
                       "TypeTable", d.TYPES))

\* A set_pokemon that writes the whole entity: the egg groups go back to
\* the default
set_pokemon_whole(self, pokemon_table) ==
    Loaded([i \in DOMAIN self |->
                [self[i] EXCEPT !.pokemon = pokemon_table[i],
                                !.egg_groups = Species_default.egg_groups]])

\* SpeciesTable::set_pokemon
set_pokemon(self, pokemon_table) ==
    Loaded([i \in DOMAIN self |->
                [self[i] EXCEPT !.pokemon = pokemon_table[i]]])

\* table.set_pokemon(&PokemonTable::new())
set_pokemon_new(self, o) ==
    IF IsOk(o.res) THEN set_pokemon(self, o.state) ELSE Failed(self, o.res)

\* OneOrTwo::from_options([groups.get(0), groups.get(1)])
egg_groups_of(groups) ==
    OneOrTwo_from_options(get_copied(groups, 0), get_copied(groups, 1))

\* SpeciesTable::set_egg_groups: unwrap panics at the first species that has
\* no egg group
set_egg_groups(self, egg_group_table) ==
    IF \E i \in DOMAIN self : egg_groups_of(egg_group_table[i]) = None
    THEN Failed(self, UnwrapNonePanic)
    ELSE Loaded([i \in DOMAIN self |->
            [self[i] EXCEPT !.egg_groups =
                Unwrap(egg_groups_of(egg_group_table[i]))]])

\* A set_evolutions that takes presence and every field from the evolution
\* table
evolves_from_table(e, evolution_table, id) ==
    IF id \in DOMAIN evolution_table THEN Some(evolution_table[id]) ELSE None

\* self[id].evolves_from.map(|e| EvolvesFrom { from_id: e.from_id,
\*                                             .. evolution_table[id] })
map_evolves_from(e, evolution_table, id) ==
    IF IsSome(e)
    THEN Some([evolution_table[id] EXCEPT !.from_id = Unwrap(e).from_id])
    ELSE None

\* SpeciesTable::set_evolutions: evolution_table[id] (HashMap Index) panics
\* at the first species that evolves and has no entry
set_evolutions(self, evolution_table) ==
    IF \E i \in DOMAIN self :
           IsSome(self[i].evolves_from) /\ i \notin DOMAIN evolution_table
    THEN Failed(self, KeyPanic)
    ELSE Loaded([i \in DOMAIN self |->
            [self[i] EXCEPT !.evolves_from =
                map_evolves_from(@, evolution_table, i)]])

\* pokemon_egg_groups.csv (species_id, egg_group_id) starts with one row
\* <<sp, 15>> for every species sp but the raw identifier `without`; the
\* rows after those are [rows].  EggGroupTable_push leaves the table
\* EggBase(without) after the starting rows.
EggFile(without, rows) == [without |-> without, rows |-> rows]

EggBase(without) ==
    [i \in 0..(SPECIES_COUNT - 1) |-> IF i + 1 = without THEN <<>> ELSE <<15>>]

\* EggGroupTable::new() on such a file
EggGroupTable_new(file) ==
    rows_loaded(EggGroupTable_load_csv_record, EggBase(file.without),
                file.rows)

\* table.set_pokemon(&PokemonTable::new())
join_pokemon(self, d) == apply_join(set_pokemon_new, self, PokemonTable_new(d))

\* table.set_egg_groups(&EggGroupTable::new())
join_egg_groups(self, d) ==
    apply_join(set_egg_groups, self, EggGroupTable_new(d.EGG_GROUPS))

\* table.set_evolutions(&EvolutionTable::new())
join_evolutions(self, d) ==
    apply_join(set_evolutions, self,
               new_table(EvolutionTable_load_csv_record, "EvolutionTable",
                         d.EVOLUTION))

\* One of the three join statements of SpeciesTable::new()
join_step(step, self, d) ==
    CASE step = "pokemon"    -> join_pokemon(self, d)
      [] step = "egg_groups" -> join_egg_groups(self, d)
      [] step = "evolutions" -> join_evolutions(self, d)

\* The join statements of SpeciesTable::new() run in the order `order`; a
\* panic ends the run
joins_in_order(order, self, d) ==
    and_then(LAMBDA t2, x : join_step(order[3], t2, d),
             and_then(LAMBDA t1, x : join_step(order[2], t1, d),
                      join_step(order[1], self, d), d),
             d)

\* One of the two modelled join statements of PokemonTable::new()
pokemon_join_step(step, self, d) ==
    CASE step = "forms" ->
            apply_join(set_forms, self,
                       new_table(FormTable_load_csv_record, "FormTable",
                                 d.FORMS))
      [] step = "types" ->
            apply_join(set_types, self,
                       new_table(LAMBDA t1, rec :
                                    TypeTable_load_csv_record(t1, rec, FALSE),
                                 "TypeTable", d.TYPES))

\* The two join statements of PokemonTable::new() run in the order `order`
pokemon_joins_in_order(order, d) ==
    and_then(LAMBDA t1, x : pokemon_join_step(order[2], t1, d),
             pokemon_join_step(order[1],
                new_table(PokemonTable_load_csv_record, "PokemonTable",
                          d.POKEMON), d),
             d)

----------------------------------------------------------------------------
(* The berry specification: BerryTable::new() *)

\* The berries whose flavor rows vary: the first and the last
SampleBerries == {1, BERRY_COUNT}

\* The rows of berry_flavors.csv for the berry with raw id b: one row per
\* contest type, in the file's order, with the weights w
FlavorRows(b, w) ==
    [c \in 1..5 |-> <<NatText(b), NatText(c), NatText(w[c])>>]

\* The tables BerryFlavorTable::new() returns for these files
FlavorTables ==
    {load_rows("BerryFlavorTable", BerryFlavorTable_from_empty_csv,
               FlavorRows(b, w), 1) :
        b \in SampleBerries, w \in [1..5 -> 0..MaxWeight]}

\* berries.csv: no row, or the row of the first berry
BerryFiles ==
    {<<>>,
     <<<<NatText(1), NatText(126), NatText(1), NatText(60), NatText(10)>>>>}

FlavorsInit ==
    /\ flavors \in FlavorTables
    /\ berries \in {load_rows("BerryTable", BerryTable_from_empty_csv, f, 1) :
                        f \in BerryFiles}
    /\ berry_pc = "loaded"
    /\ NotBerryIdle

\* table.set_flavors(&BerryFlavorTable::new()); table
SetFlavors ==
    /\ berry_pc = "loaded"
    /\ berries' = set_flavors(berries, flavors)
    /\ berry_pc' = "done"
    /\ UNCHANGED flavors
    /\ UNCHANGED notBerry

FlavorsNext == SetFlavors

SpecFlavors == FlavorsInit /\ [][FlavorsNext]_vars

----------------------------------------------------------------------------
(* Properties of the record fold (checked under Spec) *)

\* The table after load_csv_record has been applied to the first n items of
\* the history, in order, starting from from_empty_csv().
RECURSIVE StateAfter(_)
StateAfter(n) ==
    IF n = 0 THEN from_empty_csv(table)
    ELSE load_csv_record(table, StateAfter(n - 1), history[n].val,
                         overflow_checks).state

\* What item i of the history gives: the reader's error, or the Result of
\* load_csv_record on the table the earlier items left.
ItemResult(i) ==
    IF ~IsOk(history[i]) THEN history[i]
    ELSE load_csv_record(table, StateAfter(i - 1), history[i].val,
                         overflow_checks).res

\* C1: from_csv starts from from_empty_csv(), applies load_csv_record to the
\* rows in row order, stops at the first row that fails and returns exactly
\* that row's error; no later row is read, and Ok(state) is returned only if
\* every row succeeded.
C1_FoldStopsAtFirstError ==
    LET n == Len(history)
    IN  /\ \A i \in 1..(n - 1) : IsOk(ItemResult(i))
        /\ result.tag = "Running" =>
              /\ \A i \in 1..n : IsOk(ItemResult(i))
              /\ state = StateAfter(n)
        /\ result.tag = "Ok" =>
              /\ \A i \in 1..n : IsOk(ItemResult(i))
              /\ result.val = StateAfter(n)
        /\ result.tag \notin {"Running", "Ok"} =>
              /\ n >= 1
              /\ ~IsOk(ItemResult(n))
              /\ result = ItemResult(n)

C1_Witness ==
    /\ Len(history) = 3
    /\ result.tag = "Veekun"
    /\ IsOk(history[3])
    /\ state = StateAfter(2)
    /\ state # from_empty_csv(table)

\* The bits set in a flags value
BitsOf(x) == {b \in 0..15 : (x \div Pow2(b)) % 2 = 1}

\* The key and the flag decoded from row i of a flag table
FlagRowId(i) ==
    from_field(IF table = "ItemFlagTable" THEN "ItemId" ELSE "MoveId",
               FALSE, history[i].val, 0).val
FlagRowFlag(i) ==
    from_field(IF table = "ItemFlagTable" THEN "ItemFlags" ELSE "MoveFlags",
               FALSE, history[i].val, 1).val

\* C9: after folding any sequence of (id, flag) rows, the flags stored for an
\* id are the bitwise OR of the flags of all rows with that id: a bit is set
\* exactly when some row of that id sets it, whatever the order of the rows
\* and however often a row is repeated; an id no row names has no entry.
C9_FlagsAreOrOfRows ==
    (table \in FlagTables /\ result.tag \in {"Running", "Ok"})
    => LET rowsRead == 1..Len(history)
       IN  /\ DOMAIN state = {FlagRowId(i) : i \in rowsRead}
           /\ \A id \in DOMAIN state :
                BitsOf(state[id]) =
                    UNION {BitsOf(FlagRowFlag(i)) :
                             i \in {j \in rowsRead : FlagRowId(j) = id}}

C9_Witness ==
    /\ table = "ItemFlagTable"
    /\ result.tag = "Ok"
    /\ Len(history) = 3
    /\ FlagRowId(1) = 1 /\ FlagRowFlag(1) = 1
    /\ FlagRowId(2) = 2 /\ FlagRowFlag(2) = 1
    /\ FlagRowId(3) = 1 /\ FlagRowFlag(3) = 2
    /\ state[1] = 3 /\ state[2] = 1

\* The raw number in the id field of row i
RawId(i) == parse("u16", history[i].val.fields[1]).val

\* C5: a row of moves, move_meta, move_flag_map or move_meta_stat_changes
\* whose raw move id is 10000 or above is silently skipped: load_csv_record
\* returns Ok, the table is left unchanged, and the fold goes on.
C5_OutOfDomainRowSkipped ==
    LET n == Len(history)
    IN  (/\ table \in MoveTables
         /\ n >= 1
         /\ IsOk(history[n])
         /\ RawId(n) >= SKIP_MOVE_ID)
        => /\ result.tag \in {"Running", "Ok"}
           /\ state = StateAfter(n - 1)

\* The number of slots of a dense table: the COUNT of its identifier kind
SlotCount(t) ==
    CASE t = "BerryTable" -> BERRY_COUNT
      [] t \in {"MoveTable", "MetaTable"} -> MOVE_COUNT
      [] t \in {"FormTable", "TypeTable"} -> POKEMON_COUNT
      [] t \in {"SpeciesTable", "PokemonTable", "EggGroupTable"}
            -> SPECIES_COUNT

\* The kind of the identifier that indexes a dense table, and the column
\* its loader reads the identifier from
SlotKind(t) ==
    CASE t = "BerryTable" -> "BerryId"
      [] t \in {"MoveTable", "MetaTable"} -> "MoveId"
      [] t \in {"FormTable", "TypeTable"} -> "PokemonId"
      [] t \in {"SpeciesTable", "PokemonTable", "EggGroupTable"}
            -> "SpeciesId"

SlotColumn(t) ==
    CASE t = "PokemonTable" -> 1
      [] t = "FormTable" -> 2
      [] OTHER -> 0

\* The identifier row n of the history holds, as the table's loader reads it
RowSlot(n) ==
    from_field(SlotKind(table), FALSE, history[n].val, SlotColumn(table))

\* The slots the rows read so far name
NamedSlots ==
    {RowSlot(n).val : n \in {m \in 1..Len(history) :
                                IsOk(history[m]) /\ IsOk(RowSlot(m))}}

\* Row n of the history names slot i of the table
RowNames(n, i) == IsOk(history[n]) /\ RowSlot(n) = Ok(i)

\* The last row read is a row of the type table whose slot number is not one
\* of the array [Option<Type>; 2] (the slot, not the identifier, is out of
\* bounds)
LastSlotOutOfArray ==
    /\ table = "TypeTable"
    /\ from_field("usize", FALSE, history[Len(history)].val, 2).val
          \notin 1..2

----------------------------------------------------------------------------
(* The decoder specification: one field of one record is read once *)

MaxFieldLen == 3
SampleLine  == 7

Chars == {"0", "1", "9", "+", "-", " "}
Texts == UNION {[1..n -> Chars] : n \in 0..MaxFieldLen}

DecodeKinds ==
    {"u8", "i8", "ItemId", "BerryId", "MoveId", "SpeciesId", "PokemonId",
     "BattleStyle", "Stat", "Ailment", "VeekunString"}

\* Two values of type T to pass as defaults
SampleValues(k) ==
    IF k = "VeekunString" THEN {<<>>, <<"1">>}
    ELSE IF k = "Ailment" THEN {-1, 1}
    ELSE {1, 2}

\* The Option<Self> default: None for from_field, Some(d) for from_option_field
DefaultsFor(k, w) ==
    IF w THEN {None, Some(None)} \cup {Some(Some(d)) : d \in SampleValues(k)}
         ELSE {None} \cup {Some(d) : d \in SampleValues(k)}

\* The field indexes read, and the text of a field that is not the one read
MaxIndex   == 1
OtherField == <<"1">>

DecInit ==
    /\ kind \in DecodeKinds
    /\ wrapped \in BOOLEAN
    /\ record \in {StringRecord(l, f) :
                     l \in {None, Some(SampleLine)},
                     f \in {<<>>} \cup {<<t>> : t \in Texts}
                              \cup {<<OtherField, t>> : t \in Texts}}
    /\ index \in 0..MaxIndex
    /\ dflt \in DefaultsFor(kind, wrapped)
    /\ res = Pending
    /\ NotDecIdle

\* from_field(&record, index)
ReadField ==
    /\ res = Pending
    /\ dflt = None
    /\ res' = from_field(kind, wrapped, record, index)
    /\ UNCHANGED <<kind, wrapped, record, index, dflt>>
    /\ UNCHANGED notDec

\* from_option_field(&record, index, default)
ReadOptionField ==
    /\ res = Pending
    /\ dflt # None
    /\ res' = from_option_field(kind, wrapped, record, index, Unwrap(dflt))
    /\ UNCHANGED <<kind, wrapped, record, index, dflt>>
    /\ UNCHANGED notDec

DecNext == ReadField \/ ReadOptionField

SpecDecode == DecInit /\ [][DecNext]_vars

----------------------------------------------------------------------------
(* Properties of the field decoders (checked under SpecDecode) *)

FieldRead == res.tag # "Pending" /\ index < Len(record.fields)
TheText   == record.fields[index + 1]
Blank(t)  == \A i \in 1..Len(t) : t[i] = " "
DefaultSupplied == dflt # None

\* C2: when the field text does not parse into the intermediate type, the
\* decoder returns the supplied default if and only if a default was supplied
\* and the field is empty or all whitespace; every other parse failure is a
\* Parse error.
C2_ParseFailure ==
    (FieldRead /\ ~wrapped /\ kind \in FromVeekunKinds
              /\ ~IsOk(parse(kind, TheText)))
    => IF DefaultSupplied /\ Blank(TheText)
       THEN res.tag = "Ok" /\ res.val = Unwrap(dflt)
       ELSE res.tag = "Veekun" /\ res.error.tag = "Parse"

C2_Witness ==
    /\ FieldRead /\ ~wrapped /\ kind = "u8"
    /\ TheText = <<" ">> /\ dflt = Some(2)
    /\ res.tag = "Ok" /\ res.val = 2

\* C3: when the field parses but from_veekun rejects the parsed value, the
\* decoder fails with a Value error carrying the parsed value, never with a
\* Parse error and never with the default, with or without a default.
C3_RejectedValue ==
    (FieldRead /\ ~wrapped /\ kind \in FromVeekunKinds
              /\ IsOk(parse(kind, TheText))
              /\ from_veekun(kind, parse(kind, TheText).val) = None)
    => /\ res.tag = "Veekun"
       /\ res.error.tag = "Value"
       /\ res.error.val = parse(kind, TheText).val

C3_Witness ==
    /\ FieldRead /\ ~wrapped /\ kind = "ItemId"
    /\ TheText = <<"0">> /\ dflt = Some(1)
    /\ res.tag = "Veekun" /\ res.error.tag = "Value" /\ res.error.val = 0

\* The result of reading VeekunOption<T> that corresponds to the result r of
\* reading T.
OptionOf(r) ==
    IF IsOk(r) THEN Ok(Some(r.val)) ELSE r

\* C4: read as VeekunOption<T>, an empty or all-whitespace field is None
\* without an error for every T and every default; a non-blank field is
\* Some(v) exactly when T's decoder returns Ok(v), and T's error otherwise.
C4_OptionalField ==
    (FieldRead /\ wrapped)
    => IF Blank(TheText)
       THEN res.tag = "Ok" /\ res.val = None
       ELSE res = OptionOf(from_field(kind, FALSE, record, index))

C4_Witness ==
    /\ FieldRead /\ wrapped /\ kind = "u8"
    /\ TheText = <<" ">> /\ dflt = Some(Some(1))
    /\ res.tag = "Ok" /\ res.val = None

\* C6: a foreign-key field holding raw 0, read as the loaders read it (the
\* berry's item id as ItemId, the species' evolves-from id as
\* VeekunOption<SpeciesId>), decodes to absent and gives no decode error.
C6_ZeroIsAbsent ==
    (FieldRead /\ TheText = <<"0">> /\ ~DefaultSupplied
        /\ \/ (kind = "ItemId" /\ ~wrapped)
           \/ (kind = "SpeciesId" /\ wrapped))
    => res.tag = "Ok" /\ (wrapped => res.val = None)

\* COUNT of a dense identifier kind
CountOf(k) ==
    CASE k = "PokemonId" -> POKEMON_COUNT
      [] k = "SpeciesId" -> SPECIES_COUNT
      [] k = "MoveId"    -> MOVE_COUNT
      [] k = "BerryId"   -> BERRY_COUNT

\* C7: a raw identifier that names no entity of its kind (raw 0, or raw
\* greater than COUNT) never decodes to a valid identifier of PokemonId,
\* SpeciesId, MoveId or BerryId.
C7_UnresolvedIsAbsent ==
    (FieldRead /\ ~wrapped
        /\ kind \in {"PokemonId", "SpeciesId", "MoveId", "BerryId"}
        /\ IsOk(parse(kind, TheText))
        /\ \/ parse(kind, TheText).val = 0
           \/ parse(kind, TheText).val > CountOf(kind))
    => res.tag # "Ok"

\* C20: reading field index i of a row that has i or fewer fields, through
\* get_field, from_field or from_option_field, fails with a RecordLength
\* error carrying the row's line and the index i, whatever default was
\* supplied; a row with more than i fields never produces this error.
C20_RecordLength ==
    (res.tag # "Pending")
    => IF Len(record.fields) <= index
       THEN /\ res = Error_RecordLength(get_line(record), index)
            /\ get_field(record, index) = res
       ELSE /\ res.tag # "RecordLength"
            /\ get_field(record, index) = Ok(TheText)

C20_Witness ==
    /\ Len(record.fields) = 1 /\ index = 1
    /\ kind = "u8" /\ ~wrapped /\ dflt = Some(2)
    /\ res = Error_RecordLength(Some(SampleLine), 1)

\* The decoder's own result on the text of the field that was read
DecoderResult ==
    IF wrapped
    THEN VeekunOption_from_veekun_field(kind, TheText, dflt)
    ELSE from_veekun_field(kind, TheText, dflt)

DecoderWithoutDefault ==
    IF wrapped
    THEN VeekunOption_from_veekun_field(kind, TheText, None)
    ELSE from_veekun_field(kind, TheText, None)

\* C22: for every decoder, field text and default d, the decoding with
\* Some(d) relates to the decoding of the same text with None as follows:
\* when the latter is Ok(v) the former is the same Ok(v); when the latter
\* is an error the former is that same error or Ok(d).  The same relation
\* holds between from_option_field and from_field on the same row.
C22_DefaultOnlyRescues ==
    (FieldRead /\ DefaultSupplied)
    => /\ IF IsOk(DecoderWithoutDefault)
          THEN DecoderResult = DecoderWithoutDefault
          ELSE DecoderResult \in {DecoderWithoutDefault, Ok(Unwrap(dflt))}
       /\ IF IsOk(from_field(kind, wrapped, record, index))
          THEN res = from_field(kind, wrapped, record, index)
          ELSE res \in {from_field(kind, wrapped, record, index),
                        Ok(Unwrap(dflt))}

\* A blank field read into an optional value with a default of Some(x):
\* both decodings give VeekunOption(None)
C22_Witness ==
    /\ FieldRead /\ wrapped /\ kind = "u8"
    /\ TheText = <<" ">>
    /\ dflt # None /\ Unwrap(dflt) # None
    /\ DecoderWithoutDefault = Ok(None)
    /\ res = Ok(None)

----------------------------------------------------------------------------
(* The identifier specification: one identifier field holding the decimal   *)
(* text of a raw identifier is read once with from_field                    *)

MaxRaw == 700

DenseKinds == {"PokemonId", "SpeciesId", "MoveId", "BerryId"}

IdsInit ==
    /\ kind \in DenseKinds
    /\ wrapped = FALSE
    /\ record \in {StringRecord(Some(SampleLine), <<NatText(n)>>) :
                     n \in 0..MaxRaw}
    /\ index = 0
    /\ dflt = None
    /\ res = Pending
    /\ NotDecIdle

SpecIds == IdsInit /\ [][ReadField]_vars

\* The raw identifier written in the field that was read
RawOf == parse("u16", TheText).val

\* C17: for every raw identifier n in 1..COUNT of a dense kind, decoding n
\* gives the zero-based index n - 1, index + 1 gives n again, and no other
\* raw identifier of the range decodes to the same index.
C17_IdRoundTrip ==
    (FieldRead /\ kind \in DenseKinds /\ ~wrapped
        /\ IsOk(parse("u16", TheText))
        /\ RawOf \in 1..CountOf(kind))
    => /\ res = Ok(RawOf - 1)
       /\ res.val + 1 = RawOf
       /\ \A m \in 1..CountOf(kind) :
              m # RawOf => from_veekun(kind, m) # Some(res.val)

C17_Witness ==
    /\ FieldRead /\ kind = "PokemonId"
    /\ TheText = NatText(POKEMON_COUNT)
    /\ res = Ok(POKEMON_COUNT - 1)

----------------------------------------------------------------------------
(* The species specification: SpeciesTable::new() on CSV files that load    *)
(* without error                                                            *)

MaxFileRows == 2

\* The sequences of at most MaxFileRows rows drawn from a set of rows
FilesOf(rows) == UNION {[1..n -> rows] : n \in 0..MaxFileRows}

\* A row of pokemon_species.csv: id, identifier, generation,
\* evolves_from_species_id, .., gender_rate in column 8
SpeciesRow(sp, ev) ==
    <<NatText(sp), <<"a">>, NatText(1), ev, <<>>, <<>>, <<>>, <<>>,
      NatText(4)>>

SpeciesRows == {SpeciesRow(sp, ev) : sp \in {1, 2}, ev \in {<<>>, NatText(1)}}

\* Rows of pokemon.csv (id, species_id) and pokemon_forms.csv (id,
\* form_identifier, pokemon_id, .., is_battle_only in column 5)
PokemonRows == {<<NatText(1), NatText(1)>>, <<NatText(2), NatText(1)>>,
                <<NatText(2), NatText(2)>>}

FormRows ==
    {<<NatText(1), <<>>, NatText(1), <<>>, <<>>, NatText(0)>>,
     <<NatText(2), <<"a">>, NatText(1), <<>>, <<>>, NatText(1)>>,
     <<NatText(2), <<>>, NatText(2), <<>>, <<>>, NatText(0)>>}

\* pokemon_types.csv (pokemon_id, type_id, slot): a first type for the
\* pokemon 1..n
TypeFile(n) == [p \in 1..n |-> <<NatText(p), NatText(1), NatText(1)>>]

EggFiles == {EggFile(0, <<>>), EggFile(0, <<<<NatText(1), NatText(1)>>>>),
             EggFile(2, <<>>)}

\* A row of pokemon_evolution.csv: id, evolved_species_id,
\* evolution_trigger_id, .., minimum_level in column 4, gender_id in 5,
\* known_move_id in 9, relative_physical_stats in 12
EvolutionRow(sp, level) ==
    <<NatText(1), NatText(sp), NatText(1), <<>>, level, <<>>, <<>>,
      <<>>, <<>>, <<>>, <<>>, <<>>, <<>> >>

EvolutionRows == {EvolutionRow(1, NatText(16)), EvolutionRow(2, <<>>)}

\* The files of the other tables when one table's file varies: two species
\* (the second evolves from the first), one pokemon each, both typed, every
\* species with an egg group, and the evolution row of the second species
BaseData ==
    [SPECIES |-> <<SpeciesRow(1, <<>>), SpeciesRow(2, NatText(1))>>,
     POKEMON |-> <<<<NatText(1), NatText(1)>>, <<NatText(2), NatText(2)>>>>,
     FORMS |-> <<>>, TYPES |-> TypeFile(2), EGG_GROUPS |-> EggFile(0, <<>>),
     EVOLUTION |-> <<EvolutionRow(2, <<>>)>>]

\* The files: every species file with every evolution file, every type file
\* with every egg group file, and every pokemon file with every form file
DataSets ==
    {[BaseData EXCEPT !.SPECIES = sf, !.EVOLUTION = vf] :
        sf \in FilesOf(SpeciesRows), vf \in FilesOf(EvolutionRows)}
    \cup
    {[BaseData EXCEPT !.TYPES = TypeFile(n), !.EGG_GROUPS = ef] :
        n \in {1, 2}, ef \in EggFiles}
    \cup
    {[BaseData EXCEPT !.POKEMON = pf, !.FORMS = ff] :
        pf \in FilesOf(PokemonRows), ff \in FilesOf(FormRows)}

\* let mut table = SpeciesTable::from_csv_data(vdata::SPECIES).unwrap();
SpeciesInit ==
    /\ data \in DataSets
    /\ species = new_table(SpeciesTable_load_csv_record, "SpeciesTable",
                         data.SPECIES)
    /\ species_pc = "loaded"
    /\ NotSpeciesIdle

\* The join `step` has run and left outcome o
Joined(o, done) ==
    /\ species' = o.state
    /\ species_pc' = IF IsOk(o.res) THEN done ELSE "panicked"
    /\ UNCHANGED data
    /\ UNCHANGED notSpecies

\* table.set_pokemon(&PokemonTable::new());
SetPokemon ==
    /\ species_pc = "loaded"
    /\ \E o \in {join_pokemon(species, data)} : Joined(o, "pokemon")

\* table.set_egg_groups(&EggGroupTable::new());
SetEggGroups ==
    /\ species_pc = "pokemon"
    /\ \E o \in {join_egg_groups(species, data)} : Joined(o, "egg_groups")

\* table.set_evolutions(&EvolutionTable::new()); table
SetEvolutions ==
    /\ species_pc = "egg_groups"
    /\ \E o \in {join_evolutions(species, data)} : Joined(o, "done")

SpeciesNext == SetPokemon \/ SetEggGroups \/ SetEvolutions

SpecSpecies == SpeciesInit /\ [][SpeciesNext]_vars

----------------------------------------------------------------------------
(* Properties of SpeciesTable::new() (checked under SpecSpecies) *)

\* The evolves-from field of row n of the species file, and the species
\* (zero-based identifier) the row is about
EvolvesField(n) == data.SPECIES[n][4]
RowSpecies(n)   == parse("u16", data.SPECIES[n][1]).val - 1

\* The rows of the species file that are about species i and carry a
\* non-blank evolves-from field
GrantingRows(i) ==
    {n \in 1..Len(data.SPECIES) :
        RowSpecies(n) = i /\ ~Blank(EvolvesField(n))}

\* The evolution table EvolutionTable::new() loads from the files
TheEvolutions ==
    new_table(EvolutionTable_load_csv_record, "EvolutionTable", data.EVOLUTION)

\* C11: after assembly a species has evolves_from present if and only if a
\* row of its own in the species file carried a non-blank evolves-from
\* field; from_id is the species that field names, the other fields are the
\* evolution table's entry, and a species without the field stays absent
\* even when the evolution table has an entry for it.  Before
\* set_evolutions the fields other than from_id are the defaults, and
\* set_evolutions leaves presence and from_id as they were.
C11_EvolvesFromPresence ==
    (species_pc \in {"loaded", "pokemon", "egg_groups", "done"})
    => \A i \in DOMAIN species :
          LET e == species[i].evolves_from
              g == GrantingRows(i)
              last == CHOOSE n \in g : \A m \in g : m <= n
          IN  /\ IsSome(e) <=> g # {}
              /\ IsSome(e) =>
                    /\ Unwrap(e).from_id
                         = parse("u16", EvolvesField(last)).val - 1
                    /\ IF species_pc = "done"
                       THEN Unwrap(e) = [TheEvolutions[i] EXCEPT
                                           !.from_id = Unwrap(e).from_id]
                       ELSE Unwrap(e) = [EvolvesFrom_default EXCEPT
                                           !.from_id = Unwrap(e).from_id]

C11_Witness ==
    /\ species_pc = "done"
    /\ IsSome(species[1].evolves_from)
    /\ Unwrap(species[1].evolves_from).from_id = 0
    /\ species[0].evolves_from = None
    /\ 0 \in DOMAIN TheEvolutions
    /\ TheEvolutions[0].level = 16

\* The tables the auxiliary constructors load from the files
ThePokemon  == PokemonTable_new(data)
TheEggGroups == EggGroupTable_new(data.EGG_GROUPS)

\* C12: a join whose auxiliary table has no entry for an entity applies the
\* auxiliary's default and completes: no join of SpeciesTable::new() (nor of
\* the PokemonTable::new() inside it) panics; a pokemon without a type row
\* keeps the default types, a species without an egg group row keeps the
\* default egg groups, and a species that evolves and has no evolution row
\* keeps the default evolution details.
C12_MissingAuxiliaryIsDefault ==
    /\ species_pc # "panicked"
    /\ (species_pc = "loaded") => IsOk(ThePokemon.res)
    /\ (species_pc = "egg_groups")
        => \A i \in DOMAIN species :
              TheEggGroups[i] = <<>>
              => species[i].egg_groups = Species_default.egg_groups
    /\ (species_pc = "done")
        => \A i \in DOMAIN species :
              (GrantingRows(i) # {} /\ i \notin DOMAIN TheEvolutions)
              => species[i].evolves_from =
                    Some([EvolvesFrom_default EXCEPT !.from_id =
                            Unwrap(species[i].evolves_from).from_id])

\* The zero-based identifier written in column col of a row
IdIn(row, col) == parse("u16", row[col]).val - 1

\* The rows of pokemon.csv that name species i, and the rows of
\* pokemon_forms.csv that name pokemon p, in the order of the file
PokemonRowsOf(i) == SelectSeq(data.POKEMON, LAMBDA row : IdIn(row, 2) = i)
FormRowsOf(p)    == SelectSeq(data.FORMS, LAMBDA row : IdIn(row, 3) = p)

\* The form a row of pokemon_forms.csv describes
FormOf(row) ==
    [id |-> parse("u16", row[1]).val,
     name |-> IF Blank(row[2]) THEN None ELSE Some(row[2]),
     battle_only |-> (parse("u8", row[6]).val # 0)]

\* C13: after the pokemon rows and the form rows are loaded and joined,
\* every species owns exactly the pokemon whose rows named it, in the order
\* those rows were read, every pokemon owns exactly the forms whose rows
\* named it, in the order those rows were read, and a species or pokemon
\* that no row names owns the empty sequence.
C13_GroupedAppend ==
    (species_pc \in {"pokemon", "egg_groups", "done"})
    => \A i \in DOMAIN species :
          LET mine == PokemonRowsOf(i)
              owned == species[i].pokemon
          IN  /\ Len(owned) = Len(mine)
              /\ \A k \in 1..Len(mine) :
                    LET forms == FormRowsOf(IdIn(mine[k], 1))
                    IN  /\ owned[k].id = IdIn(mine[k], 1)
                        /\ owned[k].forms =
                              [n \in 1..Len(forms) |-> FormOf(forms[n])]

\* Species 1 owns the pokemon 1 and 2 in that order, pokemon 1 owns two
\* forms in the order of their rows, pokemon 2 owns no form and species 2
\* owns no pokemon
C13_Witness ==
    /\ species_pc = "done"
    /\ Len(species[0].pokemon) = 2
    /\ species[0].pokemon[1].id = 0
    /\ species[0].pokemon[2].id = 1
    /\ Len(species[0].pokemon[1].forms) = 2
    /\ species[0].pokemon[1].forms[1].name = Some(<<"a">>)
    /\ species[0].pokemon[1].forms[2].name = None
    /\ species[0].pokemon[2].forms = <<>>
    /\ species[1].pokemon = <<>>

\* The orders in which the join statements can be written
Orders(steps) ==
    {order \in [1..Cardinality(steps) -> steps] :
        \A a, b \in DOMAIN order : a # b => order[a] # order[b]}

SpeciesSteps == {"pokemon", "egg_groups", "evolutions"}
PokemonSteps == {"forms", "types"}

\* The species table as loaded from the species file, before any join
TheSpecies ==
    new_table(SpeciesTable_load_csv_record, "SpeciesTable", data.SPECIES)

----------------------------------------------------------------------------
(* Properties of BerryTable::set_flavors (checked under SpecFlavors) *)

\* The weight the flavor table holds for flavor f of berry id
Weight(f, id) == BerryFlavorTable_index(flavors, f)[id]

StrictlyGreatest(f, id) ==
    \A g \in Flavor_CODES \ {f} : Weight(f, id) > Weight(g, id)

\* C8: after set_flavors, for every berry and every assignment of weights to
\* the five flavors, the berry's flavor is Some(f) exactly when f's weight is
\* strictly greater than the weight of every other flavor, and None whenever
\* two or more flavors share the greatest weight (all weights zero included),
\* wherever the tied flavors stand in the scan order.
C8_StrictlyGreatestOrNone ==
    berry_pc = "done"
    => \A id \in 0..(BERRY_COUNT - 1) :
         /\ \A f \in Flavor_CODES :
              (berries[id].flavor = Some(f)) <=> StrictlyGreatest(f, id)
         /\ (~\E f \in Flavor_CODES : StrictlyGreatest(f, id))
              => berries[id].flavor = None

\* The first and the last flavor of the scan tie at the greatest weight, one
\* between them is lower, and the berry has no flavor; another berry's single
\* greatest flavor would be Some.
C8_Witness ==
    /\ berry_pc = "done"
    /\ Weight(0, 0) = 2 /\ Weight(4, 0) = 2 /\ Weight(2, 0) = 1
    /\ Weight(1, 0) = 0 /\ Weight(3, 0) = 0
    /\ berries[0].flavor = None
    /\ berries[0].item = 126

----------------------------------------------------------------------------
(* Properties of PalaceTable::load_csv_record (checked under SpecPalace) *)

\* The last record read, and its four fields as load_csv_record decodes them
LastRecord == history[Len(history)].val
PalaceNature == from_field("Nature", FALSE, LastRecord, 0)
PalaceStyle  == from_field("BattleStyle", FALSE, LastRecord, 1)
PalaceLow    == from_field("u8", FALSE, LastRecord, 2)
PalaceHigh   == from_field("u8", FALSE, LastRecord, 3)

\* The last record is a Support row whose four fields decode
SupportRowRead ==
    /\ Len(history) >= 1
    /\ IsOk(history[Len(history)])
    /\ IsOk(PalaceNature) /\ IsOk(PalaceStyle)
    /\ IsOk(PalaceLow) /\ IsOk(PalaceHigh)
    /\ PalaceStyle.val = 2

\* attack + defense + support over the integers, in a half table as the
\* earlier rows left it
PalaceSum(half, support) ==
    half.attack[PalaceNature.val] + half.defense[PalaceNature.val] + support

LowSum  == PalaceSum(StateAfter(Len(history) - 1).low, PalaceLow.val)
HighSum == PalaceSum(StateAfter(Len(history) - 1).high, PalaceHigh.val)

\* C10: when the Support row of a nature is read, the row is accepted if and
\* only if attack + defense + support is exactly 100 in the low and in the
\* high context; otherwise the load fails with the validation error carrying
\* the row's line and field 2 for low or field 3 for high, low checked first.
C10_SumValidation ==
    SupportRowRead
    => IF LowSum = 100 /\ HighSum = 100
       THEN result.tag \in {"Running", "Ok"}
       ELSE result = Palace_error(Len(history) + 1,
                                  IF LowSum # 100 THEN 2 ELSE 3)

\* The validation error names the line of the row that failed and the field
\* whose sum, as the loader computed it, is not 100
PalaceErrorProvenance ==
    (result.tag = "Veekun" /\ result.error = MiscError("Preferences must sum to 100."))
    => /\ SupportRowRead
       /\ result.line = get_line(LastRecord)
       /\ result.field \in {2, 3}
       /\ result.field = 2 => LowSum % (U8_MAX + 1) # 100
       /\ result.field = 3 => HighSum % (U8_MAX + 1) # 100 /\ LowSum % (U8_MAX + 1) = 100

\* C29: the sum check is exact over the integers: a Support row is accepted
\* only when attack + defense + support is 100 in both contexts; a sum above
\* 255 is rejected with the validation error; the load never ends in
\* another way on a Support row whose fields decode.
C29_ExactSum ==
    SupportRowRead
    => /\ result.tag \in {"Running", "Ok"} => (LowSum = 100 /\ HighSum = 100)
       /\ LowSum > U8_MAX => result = Palace_error(Len(history) + 1, 2)
       /\ (LowSum = 100 /\ HighSum > U8_MAX)
            => result = Palace_error(Len(history) + 1, 3)
       /\ result.tag # "Panic"

\* Item i of the history is a Support row whose four fields decode
SupportRowAt(i) ==
    /\ IsOk(history[i])
    /\ IsOk(from_field("Nature", FALSE, history[i].val, 0))
    /\ IsOk(from_field("BattleStyle", FALSE, history[i].val, 1))
    /\ from_field("BattleStyle", FALSE, history[i].val, 1).val = 2
    /\ IsOk(from_field("u8", FALSE, history[i].val, 2))
    /\ IsOk(from_field("u8", FALSE, history[i].val, 3))

\* attack + defense of the row's nature in a half of the final table, plus
\* the support weight of field fld of the Support row at i
FinalSum(half, i, fld) ==
    half.attack[from_field("Nature", FALSE, history[i].val, 0).val]
    + half.defense[from_field("Nature", FALSE, history[i].val, 0).val]
    + from_field("u8", FALSE, history[i].val, fld).val

\* C30: when from_csv returns Ok(table), every Support row read has, in
\* the returned table, attack + defense + (the row's weight) = 100 for its
\* nature in the low and in the high context, whatever the order of the
\* rows.
C30_FinalSums ==
    (table = "PalaceTable" /\ result.tag = "Ok")
    => \A i \in 1..Len(history) :
          SupportRowAt(i)
          => /\ FinalSum(result.val.low, i, 2) = 100
             /\ FinalSum(result.val.high, i, 3) = 100

----------------------------------------------------------------------------
(* Nature::disliked, increased and decreased (natures.rs) *)

\* A call that returned v (a call that panicked is Panic(msg))
Returns(v) == [tag |-> "Returns", val |-> v]

\* Option::or_else(|| unreachable!())
or_else_unreachable(o) ==
    IF IsSome(o)
    THEN Returns(o)
    ELSE Panic("internal error: entered unreachable code")

\* Nature::disliked(self)
Nature_disliked(x) ==
    IF x % 6 = 0
    THEN Returns(None)
    ELSE or_else_unreachable(from_repr(Flavor_CODES, x \div 5))

\* Option::and_then(|x| Stat::from_repr(x.repr() as i8).or_else(..))
and_then_Stat(o) ==
    IF IsSome(o)
    THEN or_else_unreachable(from_repr(Stat_CODES, Unwrap(o)))
    ELSE Returns(None)

\* Nature::increased(self)
Nature_increased(x) ==
    IF Nature_disliked(x).tag = "Returns"
    THEN and_then_Stat(Nature_disliked(x).val)
    ELSE Nature_disliked(x)

\* Nature::decreased(self)
Nature_decreased(x) ==
    IF x % 6 = 0
    THEN Returns(None)
    ELSE or_else_unreachable(from_repr(Stat_CODES, x % 5))

NatureCalls == {"disliked", "increased", "decreased"}

NaturesInit ==
    /\ call \in NatureCalls
    /\ arg \in Nature_CODES
    /\ ret = Pending
    /\ NotCallIdle

Returned(v) ==
    /\ ret = Pending
    /\ ret' = v
    /\ UNCHANGED <<call, arg>>
    /\ UNCHANGED notCall

Disliked  == call = "disliked"  /\ Returned(Nature_disliked(arg))
Increased == call = "increased" /\ Returned(Nature_increased(arg))
Decreased == call = "decreased" /\ Returned(Nature_decreased(arg))

NaturesNext == Disliked \/ Increased \/ Decreased

SpecNatures == NaturesInit /\ [][NaturesNext]_vars

----------------------------------------------------------------------------
(* Properties of the nature accessors (checked under SpecNatures) *)

\* The rule of the Nature documentation (natures.rs:22-34): each of Attack,
\* Defense, Speed, Special Attack, Special Defense is associated with the
\* flavor of the same position (Attack with Spicy, Defense with Sour, ...):
\* the stat Stat::from_repr(flavor.repr() as i8).
StatOfFlavor(f) == from_repr(Stat_CODES, f)
FlavorOfStat(st) == CHOOSE f \in Flavor_CODES : StatOfFlavor(f) = Some(st)

NeutralNatures == {0, 6, 12, 18, 24}  \* Hardy, Docile, Serious, Bashful, Quirky

\* C23: for every nature, disliked() is the flavor associated with the stat
\* decreased() returns; the five neutral natures and only they return None
\* from all three accessors; every other nature returns Some from all three
\* with increased() different from decreased(); no call panics by reaching
\* unreachable!().
C23_NatureRule ==
    (ret # Pending)
    => /\ ret.tag = "Returns"
       /\ (ret.val = None) <=> (arg \in NeutralNatures)
       /\ arg \notin NeutralNatures
            => /\ Nature_increased(arg) # Nature_decreased(arg)
               /\ call = "disliked"
                    => ret.val = Some(FlavorOfStat(Unwrap(Nature_decreased(arg).val)))

\* The parts of the rule that hold: no panic, None exactly for the neutral
\* natures, increased() different from decreased(); disliked() is the
\* flavor associated with the stat increased() returns.
NatureAccessorsAsCoded ==
    (ret # Pending)
    => /\ ret.tag = "Returns"
       /\ (ret.val = None) <=> (arg \in NeutralNatures)
       /\ arg \notin NeutralNatures
            => /\ Nature_increased(arg) # Nature_decreased(arg)
               /\ call = "disliked"
                    => ret.val = Some(FlavorOfStat(Unwrap(Nature_increased(arg).val)))

----------------------------------------------------------------------------
(* The EnumRepr attribute macro (enum-repr/src/lib.rs)                       *)
(*                                                                           *)
(* An enum declaration is its repr type and the sequence of its variants'    *)
(* discriminants as written: None for a variant without one, Some(n) for     *)
(* `= n` (an integer literal, negative literals included).  A variant is     *)
(* named by its position in the declaration.                                 *)

ItemEnum(ty, variants) == [repr_ty |-> ty, variants |-> variants]

\* The state threaded through the closures of convert_enum and
\* extract_variants, with the discriminants produced so far
Extracting(prev_explicit, implicit_counter, discrs) ==
    [prev_explicit |-> prev_explicit, implicit_counter |-> implicit_counter,
     discrs |-> discrs]

\* extract_variants with the reset of implicit_counter left out
extract_without_reset(st, discriminant) ==
    IF IsSome(discriminant)
    THEN Extracting(discriminant, st.implicit_counter,
                    Append(st.discrs, Unwrap(discriminant)))
    ELSE IF IsSome(st.prev_explicit)
    THEN Extracting(st.prev_explicit, st.implicit_counter + 1,
                    Append(st.discrs,
                           (st.implicit_counter + 1) + Unwrap(st.prev_explicit)))
    ELSE Extracting(Some(0), st.implicit_counter, Append(st.discrs, 0))

\* The closure of extract_variants (fast_gen = true): one variant
extract_variant(st, discriminant) ==
    IF IsSome(discriminant)
    THEN Extracting(discriminant, 0, Append(st.discrs, Unwrap(discriminant)))
    ELSE IF IsSome(st.prev_explicit) /\ Unwrap(st.prev_explicit) >= 0
    THEN \* Expr::Lit: implicit_counter + x.value()
         Extracting(st.prev_explicit, st.implicit_counter + 1,
                    Append(st.discrs,
                           (st.implicit_counter + 1) + Unwrap(st.prev_explicit)))
    ELSE IF IsSome(st.prev_explicit)
    THEN \* Expr::Unary(Neg, Lit): v = implicit_counter - x.value()
         Extracting(st.prev_explicit, st.implicit_counter + 1,
                    Append(st.discrs,
                           (st.implicit_counter + 1) - (0 - Unwrap(st.prev_explicit))))
    ELSE Extracting(Some(0), st.implicit_counter, Append(st.discrs, 0))

\* The closure of convert_enum (fast_gen = true): the discriminant
\* expression written into the enum handed to the compiler, by its value
convert_variant(st, discriminant) ==
    IF IsSome(discriminant)
    THEN Extracting(discriminant, 0, Append(st.discrs, Unwrap(discriminant)))
    ELSE IF IsSome(st.prev_explicit)
    THEN \* #lit + (#old_expr)
         Extracting(st.prev_explicit, st.implicit_counter + 1,
                    Append(st.discrs,
                           (st.implicit_counter + 1) + Unwrap(st.prev_explicit)))
    ELSE Extracting(Some(0), st.implicit_counter, Append(st.discrs, 0))

\* The closure applied to variants lo..hi in declaration order, from state st
RECURSIVE map_range(_, _, _, _, _)
map_range(Closure(_, _), st, variants, lo, hi) ==
    IF lo > hi THEN st
    ELSE IF lo = hi
    THEN CHOOSE next \in {Closure(before, variants[lo]) : before \in {st}} : TRUE
    ELSE CHOOSE next \in
            {map_range(Closure, left, variants, ((lo + hi) \div 2) + 1, hi) :
                left \in {map_range(Closure, st, variants, lo, (lo + hi) \div 2)}}
            : TRUE

\* input.variants.iter().map(closure).unzip(): the discriminants
map_variants(Closure(_, _), variants) ==
    map_range(Closure, Extracting(None, 0, <<>>), variants, 1, Len(variants)).discrs

extract_variants(input) == map_variants(extract_variant, input.variants)
convert_enum(input)     == map_variants(convert_variant, input.variants)

\* generate_code_fast: the items of the generated `impl Enum`
generate_code_fast(input) ==
    [COUNT  |-> Len(input.variants),
     VALUES |-> [i \in 1..Len(input.variants) |-> i],
     discrs |-> extract_variants(input)]

\* fn repr(self): match self { #( Ty::#names => #discrs, )* }
Enum_repr(e, v) == e.discrs[v]

\* from_repr with the arms numbered by position instead of discriminant
Enum_from_position(e, x) ==
    IF x \in 0..(Len(e.discrs) - 1) THEN Some(x + 1) ELSE None

\* fn from_repr(x): match x { #( #discrs => Some(Ty::#names), )* _ => None }
\* (the first arm that matches)
Enum_from_repr(e, x) ==
    IF \E i \in 1..Len(e.discrs) : e.discrs[i] = x
    THEN Some(CHOOSE i \in 1..Len(e.discrs) :
                 /\ e.discrs[i] = x
                 /\ \A j \in 1..(i - 1) : e.discrs[j] # x)
    ELSE None

\* The values of the repr types used by the crate's enums
InRepr(ty, x) ==
    CASE ty = "u8"  -> 0 <= x /\ x <= U8_MAX
      [] ty = "i8"  -> I8_MIN <= x /\ x <= I8_MAX
      [] ty = "u16" -> 0 <= x /\ x <= U16_MAX

\* The compiler accepts the enum convert_enum returns: every discriminant
\* fits #[repr(ty)] and no two variants share one
Compiles(input) ==
    \E ds \in {convert_enum(input)} :
        /\ \A i \in 1..Len(ds) : InRepr(input.repr_ty, ds[i])
        /\ \A i, j \in 1..Len(ds) : ds[i] = ds[j] => i = j

Implicit(n) == [i \in 1..n |-> None]

\* The declarations of Stat, Nature, Ailment and Effect
Stat_ENUM    == ItemEnum("i8", <<Some(-1)>> \o Implicit(7))
Nature_ENUM  == ItemEnum("u8", <<Some(0)>> \o Implicit(24))
Ailment_ENUM ==
    ItemEnum("i8", <<Some(-1)>> \o Implicit(10) \o <<Some(12)>> \o Implicit(3)
                   \o <<Some(17)>> \o Implicit(4))
Effect_ENUM ==
    ItemEnum("u16",
        <<Some(1)>> \o Implicit(11) \o <<Some(14), Some(17)>> \o Implicit(4)
        \o <<Some(24)>> \o Implicit(31) \o <<Some(58)>> \o Implicit(3)
        \o <<Some(63), Some(66)>> \o Implicit(8) \o <<Some(76)>> \o Implicit(20)
        \o <<Some(98)>> \o Implicit(12) \o <<Some(112)>> \o Implicit(19)
        \o <<Some(133), Some(136)>> \o Implicit(5) \o <<Some(143)>> \o Implicit(14)
        \o <<Some(159)>> \o Implicit(4) \o <<Some(165)>> \o Implicit(99)
        \o <<Some(266)>> \o Implicit(67) \o <<Some(335)>> \o Implicit(3))

MaxVariants == 4
Literals    == {-2, 0, 2, 5}
Discriminants == {None} \cup {Some(n) : n \in Literals}

Declarations ==
    {ItemEnum(ty, v) : ty \in {"u8", "i8"},
                       v \in UNION {[1..n -> Discriminants] : n \in 1..MaxVariants}}
    \cup {Stat_ENUM, Nature_ENUM, Ailment_ENUM, Effect_ENUM}

EnumsInit ==
    /\ call = "EnumRepr"
    /\ arg \in {d \in Declarations : Compiles(d)}
    /\ ret = Pending
    /\ NotCallIdle

\* #[EnumRepr(type = "..")] applied to the declaration
EnumRepr == call = "EnumRepr" /\ Returned(Returns(generate_code_fast(arg)))

SpecEnums == EnumsInit /\ [][EnumRepr]_vars

----------------------------------------------------------------------------
(* Properties of the generated enums (checked under SpecEnums) *)

Generated == ret.val
Variants  == 1..Len(arg.variants)

\* The codes around those in use
CodeWindow ==
    {x \in (I8_MIN - 1)..(U8_MAX + 100) : InRepr(arg.repr_ty, x)}

\* C24: for every generated enum, from_repr(v.repr()) = Some(v) for every
\* variant v, from_repr(c) = None for every code c of the repr type that no
\* variant has, distinct variants have distinct codes, COUNT is the number
\* of declared variants and VALUES lists every variant exactly once in
\* declaration order.
C24_EnumRepr ==
    (ret # Pending)
    => /\ \A v \in Variants :
            Enum_from_repr(Generated, Enum_repr(Generated, v)) = Some(v)
       /\ \A c \in CodeWindow :
            (\A v \in Variants : Enum_repr(Generated, v) # c)
            => Enum_from_repr(Generated, c) = None
       /\ \A v, w \in Variants :
            Enum_repr(Generated, v) = Enum_repr(Generated, w) => v = w
       /\ Generated.COUNT = Cardinality(Variants)
       /\ Generated.VALUES = [i \in Variants |-> i]

\* enum { A, B, C = 5, D } of the module documentation
C24_Witness ==
    /\ ret # Pending
    /\ arg.variants = <<None, None, Some(5), None>>
    /\ Generated.COUNT = 4
    /\ Enum_from_repr(Generated, 6) = Some(4)
    /\ Enum_from_repr(Generated, 2) = None

\* C25: a variant without an explicit discriminant has the code of the
\* variant before it plus one, 0 when it is the first; a variant with an
\* explicit discriminant has that code, negative ones included; a code
\* skipped by an explicit jump gives None in from_repr; and the enums of
\* the crate get the codes assert_sanity states: Stat::Evasion 6,
\* Nature::Quirky 24, Ailment::Nightmare 9, HealBlock 15, Ingrain 21,
\* Effect::Hurricane 338.
C25_ImplicitDiscriminants ==
    (ret # Pending)
    => /\ \A v \in Variants :
            Enum_repr(Generated, v) =
                IF IsSome(arg.variants[v]) THEN Unwrap(arg.variants[v])
                ELSE IF v = 1 THEN 0
                ELSE Enum_repr(Generated, v - 1) + 1
       /\ \A v \in Variants \ {1} :
            \A c \in (Enum_repr(Generated, v - 1) + 1)..(Enum_repr(Generated, v) - 1) :
                (\A w \in Variants : Enum_repr(Generated, w) # c)
                => Enum_from_repr(Generated, c) = None
       /\ arg = Stat_ENUM => Enum_repr(Generated, 8) = 6
       /\ arg = Nature_ENUM => Enum_repr(Generated, 25) = 24
       /\ arg = Ailment_ENUM
            => /\ Enum_repr(Generated, 11) = 9
               /\ Enum_repr(Generated, 15) = 15
               /\ Enum_repr(Generated, 20) = 21
       /\ arg = Effect_ENUM
            => /\ Generated.COUNT = 317
               /\ Enum_repr(Generated, 317) = 338
               /\ Enum_from_repr(Generated, 13) = None

\* Stat: HP = -1 followed by seven implicit variants
C25_Witness ==
    /\ ret # Pending
    /\ arg = Stat_ENUM
    /\ Generated.discrs = <<-1, 0, 1, 2, 3, 4, 5, 6>>

----------------------------------------------------------------------------
(* veekun::to_pascal_case applied to identifiers *)

MaxNameLen == 4
NameChars  == {"a", "b", "B", "1", "-"}
MasterBall == <<"m", "a", "s", "t", "e", "r", "-", "b", "a", "l", "l">>

Names ==
    UNION {[1..n -> NameChars] : n \in 0..MaxNameLen} \cup {MasterBall}

PascalInit ==
    /\ call = "to_pascal_case"
    /\ arg \in Names
    /\ ret = Pending
    /\ NotCallIdle

ToPascalCase == call = "to_pascal_case" /\ Returned(Returns(to_pascal_case(arg)))

SpecPascal == PascalInit /\ [][ToPascalCase]_vars

----------------------------------------------------------------------------
(* Properties of to_pascal_case (checked under SpecPascal) *)

\* The characters of s from position i on, without the separators, each
\* first character of a word replaced by its upper case
RECURSIVE WordsCapitalised(_, _)
WordsCapitalised(s, i) ==
    IF i > Len(s) THEN <<>>
    ELSE (IF s[i] = "-" THEN <<>>
          ELSE IF i = 1 \/ s[i - 1] = "-" THEN to_uppercase(s[i])
          ELSE <<s[i]>>)
         \o WordsCapitalised(s, i + 1)

\* C26: to_pascal_case returns the words between the '-' separators
\* concatenated without a separator, the first character of each non-empty
\* word upper-cased and every other character unchanged; the result never
\* contains '-', empty words contribute nothing, and "master-ball" gives
\* "MasterBall".
C26_PascalCase ==
    (ret # Pending)
    => /\ ret = Returns(WordsCapitalised(arg, 1))
       /\ \A i \in 1..Len(ret.val) : ret.val[i] # "-"
       /\ arg = MasterBall
            => ret.val = <<"M", "a", "s", "t", "e", "r", "B", "a", "l", "l">>

\* Two words around an empty one: "a--b" gives "AB"
C26_Witness ==
    /\ arg = <<"a", "-", "-", "b">>
    /\ ret = Returns(<<"A", "B">>)

----------------------------------------------------------------------------
(* Properties of the slot tables (checked under SpecDense) *)

SlotId   == from_field("PokemonId", FALSE, LastRecord, 0)
SlotType == from_field("Type", FALSE, LastRecord, 1)
SlotNo   == from_field("usize", FALSE, LastRecord, 2)

\* The table before the last record was loaded
BeforeLast ==
    load_rows(table, from_empty_csv(table),
              [i \in 1..(Len(history) - 1) |-> history[i].val.fields], 1)

\* C27: a TypeTable row whose slot is outside 1..=2 is rejected with the
\* 'Invalid slot number' error at field 2 and the row's line and leaves the
\* table unchanged; a row with a slot in range sets exactly that slot of
\* that pokemon; no row makes the loader panic on an underflowing or
\* out-of-bounds slot index.
C27_SlotValidation ==
    (/\ table = "TypeTable" /\ Len(history) > 0
     /\ IsOk(history[Len(history)])
     /\ IsOk(SlotId) /\ IsOk(SlotType) /\ IsOk(SlotNo))
    => IF SlotNo.val \in 1..2
       THEN /\ result.tag \in {"Running", "Ok"}
            /\ state = [BeforeLast EXCEPT
                           ![SlotId.val][SlotNo.val] = Some(SlotType.val)]
       ELSE /\ result = Error_Veekun(get_line(LastRecord), 2,
                                     MiscError("Invalid slot number"))
            /\ state = BeforeLast

----------------------------------------------------------------------------
(* Properties of the stat-indexed arrays (checked under SpecStats) *)

RowStat  == from_field("Stat", FALSE, LastRecord, 1)
RowMove  == from_field("MoveId", FALSE, LastRecord, 0)
RowValue ==
    from_field(IF table = "StatTable" THEN "u8" ELSE "i8", FALSE, LastRecord, 2)

\* The last record read names an identifier, a stat and a value the
\* decoders accept (and a move the stat-change loader does not skip)
StatRowDecoded ==
    /\ table \in StatTables /\ Len(history) > 0
    /\ IsOk(history[Len(history)])
    /\ IsOk(RowStat) /\ IsOk(RowValue)
    /\ IF table = "StatTable" THEN IsOk(SlotId)
       ELSE IsOk(RowMove) /\ RowMove.val < SKIP_MOVE_ID

\* The stats with a slot in the table's array: all but HP for the stat
\* changes, all but Accuracy and Evasion for the base stats
StatsOf(t) == IF t = "StatTable" THEN (-1)..4 ELSE 0..6

\* C28: for every stat the decoder accepts, a stat-change row writes slot
\* stat.repr() of the move's 7-slot array and a base-stat row writes slot
\* stat.repr() + 1 of the pokemon's 6-slot array, inside the array; a row
\* whose stat has no slot in the array (HP for stat changes, Accuracy and
\* Evasion for base stats) is rejected with an error or skipped leaving the
\* table unchanged; no row makes the loader panic.
C28_StatIndexInBounds ==
    StatRowDecoded
    => /\ result.tag # "Panic"
       /\ IF RowStat.val \in StatsOf(table)
          THEN /\ result.tag \in {"Running", "Ok"}
               /\ IF table = "StatTable"
                  THEN /\ DOMAIN state[SlotId.val] = 0..(PERMANENT_STATS - 1)
                       /\ state[SlotId.val][RowStat.val + 1] = RowValue.val
                  ELSE /\ DOMAIN state[RowMove.val] = 0..(CHANGEABLE_STATS - 1)
                       /\ state[RowMove.val][RowStat.val] = RowValue.val
          ELSE state = BeforeLast

----------------------------------------------------------------------------
(* Pokedex::new and pokedex() (lib.rs): the constructors and the one-time    *)
(* publication of the dataset                                                *)

\* The tables each constructor builds and hands to its join steps (for
\* Pokedex::new: to the fields of the struct), in the order of its body
Auxiliaries(t) ==
    CASE t = "Pokedex" ->
            <<"EfficacyTable", "ItemTable", "MoveTable", "PalaceTable",
              "SpeciesTable">>
      [] t = "ItemTable"    -> <<"BerryTable", "ItemFlagTable">>
      [] t = "BerryTable"   -> <<"BerryFlavorTable">>
      [] t = "MoveTable"    -> <<"MetaTable">>
      [] t = "MetaTable"    -> <<"MoveFlagTable", "StatChangeTable">>
      [] t = "SpeciesTable" -> <<"PokemonTable", "EggGroupTable", "EvolutionTable">>
      [] t = "PokemonTable" ->
            <<"AbilityTable", "FormTable", "PokemonMoveTable", "TypeTable",
              "StatTable">>
      [] OTHER -> <<>>

CsvTables ==
    {"EfficacyTable", "ItemTable", "BerryTable", "BerryFlavorTable",
     "ItemFlagTable", "MoveTable", "MetaTable", "MoveFlagTable",
     "StatChangeTable", "PalaceTable", "SpeciesTable", "PokemonTable",
     "AbilityTable", "FormTable", "PokemonMoveTable", "TypeTable", "StatTable",
     "EggGroupTable", "EvolutionTable"}

Constructed == CsvTables \cup {"Pokedex"}

\* The join steps that unwrap an entry of the auxiliary table or index a
\* table by a key of the other, and so can panic (MetaTable::set_flags and
\* set_stat_changes, set_abilities, set_types, set_egg_groups,
\* set_evolutions)
PanickingJoins ==
    {<<"MetaTable", "MoveFlagTable">>, <<"MetaTable", "StatChangeTable">>,
     <<"PokemonTable", "AbilityTable">>, <<"PokemonTable", "TypeTable">>,
     <<"SpeciesTable", "EggGroupTable">>, <<"SpeciesTable", "EvolutionTable">>}

OpLoad(t)      == [op |-> "load", aux |-> t]
OpNew(a)       == [op |-> "new", aux |-> a]
OpJoin(a)      == [op |-> "join", aux |-> a]

\* A constructor whose join steps run before the auxiliary constructors
constructor_join_first(t) ==
    (IF t = "Pokedex" THEN <<>> ELSE <<OpLoad(t)>>)
    \o [i \in 1..(2 * Len(Auxiliaries(t))) |->
            IF i % 2 = 1 THEN OpJoin(Auxiliaries(t)[(i + 1) \div 2])
            ELSE OpNew(Auxiliaries(t)[i \div 2])]

\* The body of T::new():
\*   let mut table = T::from_csv_data(..).unwrap();
\*   table.set_a(&A::new()); table.set_b(&B::new()); table
\* The argument &A::new() is evaluated before set_a is entered.  Pokedex::new
\* has no file of its own and evaluates its field initialisers in order.
constructor(t) ==
    (IF t = "Pokedex" THEN <<>> ELSE <<OpLoad(t)>>)
    \o [i \in 1..(2 * Len(Auxiliaries(t))) |->
            IF i % 2 = 1 THEN OpNew(Auxiliaries(t)[(i + 1) \div 2])
            ELSE OpJoin(Auxiliaries(t)[i \div 2])]

\* Result::unwrap_or_default in the place of unwrap
table_or_default(r) == IF r = "Ok" THEN "value" ELSE "default"

\* Result::unwrap on what from_csv_data returned
from_csv_data_unwrap(r) == IF r = "Ok" THEN "value" ELSE "panic"

\* A Once whose closure is entered by whoever finds it not yet complete
enters_unless_complete(once_state) == once_state # "Complete"

\* Once::call_once: the closure is entered by the caller that finds the
\* Once incomplete
enters_closure(once_state) == once_state = "Incomplete"

NThreads    == 2
RowsPerFile == 2
Threads     == 1..NThreads

NotBuilt == [rows |-> 0, joined |-> <<>>, returned |-> FALSE]

PokedexInit ==
    /\ POKEDEX_ONCE = "Incomplete"
    /\ POKEDEX = None
    /\ thread_pc = [t \in Threads |-> "start"]
    /\ got = [t \in Threads |-> None]
    /\ stack = <<>>
    /\ built = [t \in Constructed |-> NotBuilt]
    /\ joins = <<>>
    /\ runs = 0
    /\ NotDexIdle

Top       == stack[Len(stack)]
TopOp     == constructor(Top.table)[Top.pc]
AtOp(o)   == Len(stack) > 0 /\ Top.pc <= Len(constructor(Top.table)) /\ TopOp.op = o
Advance   == [stack EXCEPT ![Len(stack)].pc = @ + 1]
Runner    == CHOOSE t \in Threads : thread_pc[t] = "closure"

\* A table and all its auxiliaries have all their rows, all their joins,
\* and their constructors have returned
RECURSIVE Complete(_, _)
Complete(tables, t) ==
    /\ tables[t].returned
    /\ t \in CsvTables => tables[t].rows = RowsPerFile
    /\ tables[t].joined = Auxiliaries(t)
    /\ \A i \in 1..Len(Auxiliaries(t)) : Complete(tables, Auxiliaries(t)[i])

\* POKEDEX_ONCE.call_once(|| ..) is called
CallOnce(t) ==
    /\ thread_pc[t] = "start"
    /\ IF enters_closure(POKEDEX_ONCE)
       THEN /\ POKEDEX_ONCE' = "Running"
            /\ thread_pc' = [thread_pc EXCEPT ![t] = "closure"]
            /\ stack' = <<[table |-> "Pokedex", pc |-> 1]>>
            /\ runs' = runs + 1
       ELSE /\ thread_pc' = [thread_pc EXCEPT ![t] = "waiting"]
            /\ UNCHANGED <<POKEDEX_ONCE, stack, runs>>
    /\ UNCHANGED <<POKEDEX, got, built, joins>>
    /\ UNCHANGED notDex

\* call_once returns to a caller that did not run the closure, or panics
\* because the Once is poisoned
OnceDone(t) ==
    /\ thread_pc[t] = "waiting"
    /\ POKEDEX_ONCE \in {"Complete", "Poisoned"}
    /\ thread_pc' = [thread_pc EXCEPT ![t] =
                        IF POKEDEX_ONCE = "Complete" THEN "unwrap" ELSE "panicked"]
    /\ UNCHANGED <<POKEDEX_ONCE, POKEDEX, got, stack, built, joins, runs>>
    /\ UNCHANGED notDex

\* The panic unwinds out of the closure: the Once is poisoned
Unwind ==
    /\ stack' = <<>>
    /\ POKEDEX_ONCE' = "Poisoned"
    /\ thread_pc' = [thread_pc EXCEPT ![Runner] = "panicked"]

\* from_csv loads one more record; after the last one from_csv_data
\* returns Ok(table)
LoadRow ==
    /\ AtOp("load")
    /\ built' = [built EXCEPT ![Top.table].rows = @ + 1]
    /\ stack' = IF built[Top.table].rows + 1 = RowsPerFile THEN Advance ELSE stack
    /\ UNCHANGED <<POKEDEX_ONCE, POKEDEX, thread_pc, got, joins, runs>>
    /\ UNCHANGED notDex

\* from_csv_data returns Err at the next record: .unwrap()
LoadFails ==
    /\ AtOp("load")
    /\ IF from_csv_data_unwrap("Err") = "panic"
       THEN Unwind
       ELSE stack' = Advance /\ UNCHANGED <<POKEDEX_ONCE, thread_pc>>
    /\ UNCHANGED <<POKEDEX, got, built, joins, runs>>
    /\ UNCHANGED notDex

\* &A::new() is entered
CallNew ==
    /\ AtOp("new")
    /\ stack' = Append(stack, [table |-> TopOp.aux, pc |-> 1])
    /\ built' = [built EXCEPT ![TopOp.aux] = NotBuilt]
    /\ UNCHANGED <<POKEDEX_ONCE, POKEDEX, thread_pc, got, joins, runs>>
    /\ UNCHANGED notDex

\* A::new() returns its table to the constructor that called it
ReturnTable ==
    /\ Len(stack) > 1
    /\ Top.pc > Len(constructor(Top.table))
    /\ built' = [built EXCEPT ![Top.table].returned = TRUE]
    /\ stack' = [SubSeq(stack, 1, Len(stack) - 1) EXCEPT ![Len(stack) - 1].pc = @ + 1]
    /\ UNCHANGED <<POKEDEX_ONCE, POKEDEX, thread_pc, got, joins, runs>>
    /\ UNCHANGED notDex

\* table.set_a(&a) runs over the auxiliary table (or the field of the
\* Pokedex takes it)
JoinTable ==
    /\ AtOp("join")
    /\ joins' = Append(joins, [table |-> Top.table, aux |-> TopOp.aux,
                               complete |-> Complete(built, TopOp.aux),
                               loading |-> \E i \in 1..Len(stack) :
                                               stack[i].table = TopOp.aux])
    /\ built' = [built EXCEPT ![Top.table].joined = Append(@, TopOp.aux)]
    /\ stack' = Advance
    /\ UNCHANGED <<POKEDEX_ONCE, POKEDEX, thread_pc, got, runs>>
    /\ UNCHANGED notDex

\* The join step panics on an entry the auxiliary table lacks
JoinPanics ==
    /\ AtOp("join")
    /\ <<Top.table, TopOp.aux>> \in PanickingJoins
    /\ Unwind
    /\ UNCHANGED <<POKEDEX, got, built, joins, runs>>
    /\ UNCHANGED notDex

\* POKEDEX = Some(Pokedex::new())
StorePokedex ==
    /\ Len(stack) = 1
    /\ Top.pc > Len(constructor(Top.table))
    /\ POKEDEX' = Some([built EXCEPT !["Pokedex"].returned = TRUE])
    /\ built' = [built EXCEPT !["Pokedex"].returned = TRUE]
    /\ stack' = <<>>
    /\ thread_pc' = [thread_pc EXCEPT ![Runner] = "stored"]
    /\ UNCHANGED <<POKEDEX_ONCE, got, joins, runs>>
    /\ UNCHANGED notDex

\* The closure returns: the Once is complete
CompleteOnce(t) ==
    /\ thread_pc[t] = "stored"
    /\ POKEDEX_ONCE' = "Complete"
    /\ thread_pc' = [thread_pc EXCEPT ![t] = "unwrap"]
    /\ UNCHANGED <<POKEDEX, got, stack, built, joins, runs>>
    /\ UNCHANGED notDex

\* POKEDEX.as_ref().unwrap()
ReturnPokedex(t) ==
    /\ thread_pc[t] = "unwrap"
    /\ IF IsSome(POKEDEX)
       THEN /\ got' = [got EXCEPT ![t] = POKEDEX]
            /\ thread_pc' = [thread_pc EXCEPT ![t] = "returned"]
       ELSE /\ got' = got
            /\ thread_pc' = [thread_pc EXCEPT ![t] = "panicked"]
    /\ UNCHANGED <<POKEDEX_ONCE, POKEDEX, stack, built, joins, runs>>
    /\ UNCHANGED notDex

PokedexNext ==
    \/ \E t \in Threads : CallOnce(t)
    \/ \E t \in Threads : OnceDone(t)
    \/ LoadRow
    \/ LoadFails
    \/ CallNew
    \/ ReturnTable
    \/ JoinTable
    \/ JoinPanics
    \/ StorePokedex
    \/ \E t \in Threads : CompleteOnce(t)
    \/ \E t \in Threads : ReturnPokedex(t)

SpecPokedex == PokedexInit /\ [][PokedexNext]_vars

----------------------------------------------------------------------------
(* Properties of Pokedex::new and pokedex() (checked under SpecPokedex) *)

\* The tables t depends on through at most n constructor calls
RECURSIVE DependsWithin(_, _)
DependsWithin(t, n) ==
    IF n = 0 THEN {}
    ELSE LET direct == {Auxiliaries(t)[i] : i \in 1..Len(Auxiliaries(t))}
         IN  direct \cup UNION {DependsWithin(a, n - 1) : a \in direct}

\* C15: whenever a join step (or a field of the Pokedex) reads an auxiliary
\* table, that table has all its rows, all its own joins are done, the same
\* holds for the tables it was joined with, and its constructor has
\* returned: no constructor of the table is still running; and no table
\* depends on itself through any chain of constructors.
C15_DependencyOrder ==
    /\ \A i \in 1..Len(joins) : joins[i].complete /\ ~joins[i].loading
    /\ \A t \in Constructed : t \notin DependsWithin(t, Cardinality(Constructed))

\* ItemTable::set_berries reads the BerryTable after set_flavors joined the
\* BerryFlavorTable into it
C15_Witness ==
    \E i \in 1..Len(joins) :
        /\ joins[i].table = "ItemTable" /\ joins[i].aux = "BerryTable"
        /\ joins[i].complete
        /\ \E j \in 1..(i - 1) :
              joins[j].table = "BerryTable" /\ joins[j].aux = "BerryFlavorTable"

\* C18: Pokedex::new is entered at most once; a caller returns only after
\* the Once is complete and the build has finished, and gets the published
\* dataset, which is fully built and the same for every caller; while a
\* caller is past call_once no constructor is running and POKEDEX holds the
\* dataset.
C18_PublishedOnce ==
    /\ runs <= 1
    /\ \A t \in Threads :
          thread_pc[t] \in {"unwrap", "returned"}
          => /\ POKEDEX_ONCE = "Complete"
             /\ stack = <<>>
             /\ IsSome(POKEDEX)
             /\ POKEDEX = Some(built)
             /\ Complete(Unwrap(POKEDEX), "Pokedex")
    /\ \A t \in Threads :
          thread_pc[t] = "returned" => got[t] = POKEDEX
    /\ \A t, u \in Threads :
          (thread_pc[t] = "returned" /\ thread_pc[u] = "returned") => got[t] = got[u]

\* Both callers returned the dataset of the single build
C18_Witness ==
    /\ \A t \in Threads : thread_pc[t] = "returned"
    /\ runs = 1
    /\ got[1] = got[2] /\ IsSome(got[1])

\* C19: when a load or a join failed (the Once is poisoned) no dataset is
\* published and no caller returns one, now or later; a dataset that is
\* published or returned has every table loaded from all of its rows and
\* joined with all of its auxiliaries, and no constructor returns a table
\* that is short of rows.
C19_AllOrNothing ==
    /\ \A t \in CsvTables : built[t].returned => built[t].rows = RowsPerFile
    /\ POKEDEX_ONCE = "Poisoned"
        => /\ POKEDEX = None
           /\ \A t \in Threads :
                 thread_pc[t] \notin {"unwrap", "returned"} /\ got[t] = None
    /\ IsSome(POKEDEX) => Complete(Unwrap(POKEDEX), "Pokedex")
    /\ \A t \in Threads : IsSome(got[t]) => Complete(Unwrap(got[t]), "Pokedex")

\* The ItemTable file fails at its second row; the caller that built and the
\* caller that came later both panic
C19_Witness ==
    /\ POKEDEX_ONCE = "Poisoned"
    /\ built["ItemTable"].rows = 1 /\ ~built["ItemTable"].returned
    /\ \A t \in Threads : thread_pc[t] = "panicked"

====
